---- MODULE Spec2Model ----
(***************************************************************************)
(* Task tracker: the client-side task container (Redux slice), the task    *)
(* list's status toggle with its optimistic update, the retrying create    *)
(* path of the Task Store with the add-task form, and the suggestion       *)
(* endpoint with its per-user quota counter.                               *)
(***************************************************************************)
EXTENDS Integers, Sequences, FiniteSets, TLC

\* ------------------------------------------------------------------ bounds
\* number of tasks the signed-in user holds in the list view
NumTasks == 2
\* last value of the wall clock (new Date() / Date.now())
MaxTime == 2

\* last value of the wall clock in the add-task page's system (seconds)
MaxSubmitTime == 3
\* ids the document store can generate for a new task document
MaxDocId == 2
\* suggestion requests the endpoint handles at the same time
MaxReqs == 2
\* suggestion requests the endpoint receives in one run
MaxStarted == 3
\* thunks dispatched to the container in one run
MaxDispatched == 2

\* ------------------------------------------------------------- vocabulary
Statuses == {"pending", "in-progress", "completed"}

\* a task that carries no completedAt (the key is undefined)
NoCompletedAt == 0

TaskIds == 1..NumTasks

VARIABLES
    tasks,          \* state.tasks.tasks: the container's ordered collection
    loading,        \* state.tasks.loading
    error,          \* state.tasks.error (NoError when null)
    lastUpdated,    \* state.tasks.lastUpdated (0 when null)
    docs,           \* the tasks collection of the document store, by id
    now,            \* the wall clock
    updatingTasks,  \* TaskList's updatingTasks set
    toggles,        \* per task: the handleToggleStatus invocation in flight or last finished
    formData,       \* AddTaskContent's form state
    submitLoading,  \* AddTaskContent's loading flag
    lastSubmitTime, \* AddTaskContent's lastSubmitTime
    submittedTaskHash, \* AddTaskContent's submittedTaskHash (NoHash when null)
    route,          \* the page shown: "add-task" or "list"
    alert,          \* the last message shown with alert() (NoAlert when none)
    call,           \* the createTask thunk / addTask call in flight or last finished
    userStats,      \* the userStats document of the user
    reqs,           \* the POST /api/suggestions requests being handled, by slot
    started,        \* number of suggestion requests received so far
    auth,           \* state.auth: user, loading, isAuthenticated, error
    fetch,          \* the fetchTasks thunk in flight or last settled
    edit,           \* the editTask thunk in flight or last settled
    dispatched,     \* number of thunks dispatched to the container so far
    editableTask,   \* ViewTaskContent's editableTask
    saving,         \* ViewTaskContent's saving flag
    timer,          \* the time the debounced-save effect's timeout is due (NoTimer: none)
    userChanged,    \* history: the user changed a text field since the last auto-save was dispatched
    lastChangeAt,   \* history: the time of the user's last change of a text field
    filters,        \* TaskList's filters
    pagination,     \* TaskList's pagination
    resetPending,   \* the reset-page effect has to run for the filters just set
    commentCounts,  \* TaskList's commentCounts
    query,          \* the getUserTasks call in flight or last finished
    viewedId,       \* params.id of the mounted view-task page (NoTask when not mounted)
    subs,           \* the comment listeners held, by the task id each listens to
    comments,       \* ViewTaskContent's comments
    commentDocs     \* the comments subcollection of each task, in createdAt order

containerVars == <<tasks, loading, error, lastUpdated>>
toggleVars == <<updatingTasks, toggles>>
addVars == <<formData, submitLoading, lastSubmitTime, submittedTaskHash, route, alert, call>>

suggVars == <<userStats, reqs, started>>
sessionVars == <<auth>>
thunkVars == <<fetch, edit, dispatched>>
viewVars == <<editableTask, saving, timer, userChanged, lastChangeAt>>
listVars == <<filters, pagination, resetPending, commentCounts>>
queryVars == <<query>>
commentVars == <<viewedId, subs, comments, commentDocs>>

vars == <<containerVars, docs, now, toggleVars, addVars, suggVars, sessionVars, thunkVars,
          viewVars, listVars, queryVars, commentVars>>

\* messages are sequences of words; the empty one stands for null
NoError == <<>>
NoAlert == <<>>
NoHash == <<>>

\* ---------------------------------------------------------------- helpers
\* {...a, ...b}: the keys of both, b's value where b has the key
Merge(a, b) ==
    [k \in (DOMAIN a) \cup (DOMAIN b) |-> IF k \in DOMAIN b THEN b[k] ELSE a[k]]

\* state.tasks.findIndex(task => task.id === taskId): 0 stands for -1
findIndex(ts, taskId) ==
    IF \E i \in 1..Len(ts) : ts[i].id = taskId
    THEN CHOOSE i \in 1..Len(ts) :
            /\ ts[i].id = taskId
            /\ \A j \in 1..(i - 1) : ts[j].id # taskId
    ELSE 0

\* the effect on [task]: editableTask initialised from the task
editableFrom(task) ==
    [title |-> task.title, description |-> task.description, status |-> task.status,
     type |-> task.type, dueDate |-> task.dueDate]

\* setTimeout(..., 1000): the debounce of the auto-save, in units of time
SaveDebounce == 1
\* no timeout set (the page is not mounted, or the timeout has fired)
NoTimer == 0

\* no task: the id of no document
NoTask == 0

\* a reducer has put a new object in place of the task taskId: a mounted
\* view-task page of that task runs its effect on [task] (editableTask from
\* the task), and its debounced-save effect sets a new timeout
ViewTaskEffect(taskId) ==
    IF viewedId = taskId /\ viewedId # NoTask /\ findIndex(tasks', taskId) # 0
    THEN /\ editableTask' = editableFrom(tasks'[findIndex(tasks', taskId)])
         /\ timer' = now + SaveDebounce
    ELSE UNCHANGED <<editableTask, timer>>

\* ---------------------------------------------------- tasksSlice reducers
\* updateTaskLocal putting the updates in place of the task
updateTaskLocal_Replace(ts, taskId, updates) ==
    LET taskIndex == findIndex(ts, taskId) IN
    IF taskIndex # 0
    THEN [ts EXCEPT ![taskIndex] = Merge([id |-> taskId], updates)]
    ELSE ts

\* reducer updateTaskLocal
updateTaskLocal(ts, taskId, updates) ==
    LET taskIndex == findIndex(ts, taskId) IN
    IF taskIndex # 0
    THEN [ts EXCEPT ![taskIndex] = Merge(ts[taskIndex], updates)]
    ELSE ts

\* extraReducer editTask.fulfilled; payload is { id: taskId, ...taskData }
editTaskFulfilled(ts, payload) ==
    LET taskIndex == findIndex(ts, payload.id) IN
    IF taskIndex # 0
    THEN [ts EXCEPT ![taskIndex] = Merge(ts[taskIndex], payload)]
    ELSE ts

\* the editTask thunk's fulfilled payload
editTaskPayload(taskId, taskData) == Merge([id |-> taskId], taskData)

\* updateTask: updateDoc(taskRef, { ...taskData, updatedAt: serverTimestamp() })
updateTask(ds, taskId, taskData) ==
    [ds EXCEPT ![taskId] = Merge(ds[taskId], Merge(taskData, [updatedAt |-> "serverTimestamp"]))]

\* getNextStatus with the in-progress step left out
getNextStatus_SkipInProgress(currentStatus) ==
    CASE currentStatus = "pending" -> "completed"
      [] currentStatus = "in-progress" -> "completed"
      [] currentStatus = "completed" -> "pending"
      [] OTHER -> "pending"

\* ----------------------------------------------------- TaskList component
getNextStatus(currentStatus) ==
    CASE currentStatus = "pending" -> "in-progress"
      [] currentStatus = "in-progress" -> "completed"
      [] currentStatus = "completed" -> "pending"
      [] OTHER -> "pending"

\* the updates object handleToggleStatus builds
toggleUpdates(currentStatus, time) ==
    LET newStatus == getNextStatus(currentStatus) IN
    IF newStatus = "completed"
    THEN [status |-> newStatus, completedAt |-> time]
    ELSE [status |-> newStatus]

\* the revert dispatched with the new status instead of the old one
revertUpdates_NewStatus(currentStatus) == [status |-> getNextStatus(currentStatus)]

\* the updates object the catch block dispatches to revert
revertUpdates(currentStatus) == [status |-> currentStatus]

IdleToggle == [pc |-> "idle", cur |-> "pending", updates |-> [status |-> "pending"],
               pre |-> [status |-> "pending", completedAt |-> NoCompletedAt]]

\* the task of the container with this id (the list renders only held tasks)
TaskOf(taskId) == tasks[findIndex(tasks, taskId)]

\* handleToggleStatus up to its await: the guards, the updates object, the
\* optimistic updateTaskLocal and the dispatch of editTask (editTask.pending)
ToggleClick(taskId) ==
    /\ findIndex(tasks, taskId) # 0
    /\ LET currentStatus == TaskOf(taskId).status
           updates == toggleUpdates(currentStatus, now)
       IN
       IF taskId \in updatingTasks \/ currentStatus = "completed"
       THEN UNCHANGED vars
       ELSE /\ updatingTasks' = updatingTasks \cup {taskId}
            /\ tasks' = updateTaskLocal(tasks, taskId, updates)
            /\ error' = NoError
            /\ toggles' = [toggles EXCEPT ![taskId] =
                              [pc |-> "awaiting", cur |-> currentStatus,
                               updates |-> updates,
                               pre |-> [status |-> TaskOf(taskId).status,
                                        completedAt |-> TaskOf(taskId).completedAt]]]
            /\ UNCHANGED <<loading, lastUpdated, docs, now, addVars, suggVars, sessionVars, thunkVars, viewVars, listVars, queryVars, commentVars>>

\* the editTask thunk settles: updateTask succeeded and editTask.fulfilled is
\* reduced, or updateTask threw and editTask.rejected is reduced
EditFulfilled(taskId) ==
    /\ toggles[taskId].pc = "awaiting"
    /\ docs' = updateTask(docs, taskId, toggles[taskId].updates)
    /\ tasks' = editTaskFulfilled(tasks, editTaskPayload(taskId, toggles[taskId].updates))
    /\ toggles' = [toggles EXCEPT ![taskId].pc = "fulfilled"]
    /\ ViewTaskEffect(taskId)
    /\ UNCHANGED <<loading, error, lastUpdated, now, updatingTasks, addVars, suggVars,
                   sessionVars, thunkVars, saving, userChanged, lastChangeAt, listVars,
                   queryVars, commentVars>>

EditRejected(taskId) ==
    /\ toggles[taskId].pc = "awaiting"
    /\ error' = <<"update", "failed">>
    /\ toggles' = [toggles EXCEPT ![taskId].pc = "rejected"]
    /\ UNCHANGED <<tasks, loading, lastUpdated, docs, now, updatingTasks, addVars, suggVars, sessionVars, thunkVars, viewVars, listVars, queryVars, commentVars>>

\* handleToggleStatus after its await: the catch block on a rejection, then
\* the finally block
ToggleResume(taskId) ==
    /\ toggles[taskId].pc \in {"fulfilled", "rejected"}
    /\ tasks' = IF toggles[taskId].pc = "rejected"
                THEN updateTaskLocal(tasks, taskId, revertUpdates(toggles[taskId].cur))
                ELSE tasks
    /\ updatingTasks' = updatingTasks \ {taskId}
    /\ toggles' = [toggles EXCEPT ![taskId].pc =
                      IF toggles[taskId].pc = "rejected" THEN "done-rejected" ELSE "done-fulfilled"]
    /\ IF toggles[taskId].pc = "rejected"
       THEN ViewTaskEffect(taskId)
       ELSE UNCHANGED <<editableTask, timer>>
    /\ UNCHANGED <<loading, error, lastUpdated, docs, now, addVars, suggVars,
                   sessionVars, thunkVars, saving, userChanged, lastChangeAt, listVars,
                   queryVars, commentVars>>

\* time passes
Tick ==
    /\ now < MaxTime
    /\ now' = now + 1
    /\ UNCHANGED <<containerVars, docs, toggleVars, addVars, suggVars, sessionVars, thunkVars, viewVars, listVars, queryVars, commentVars>>

\* ------------------------------------------------------------ Task Store
\* String.prototype.includes on messages
Includes(hay, needle) ==
    \E i \in 1..(Len(hay) - Len(needle) + 1) :
        SubSeq(hay, i, i + Len(needle) - 1) = needle

DocExistsNeedle == <<"Document", "already", "exists">>

\* const maxRetries = 3
maxRetries == 3

\* the test of addTask's catch block: a document-ID collision
isAlreadyExists(err) ==
    Includes(err.message, DocExistsNeedle) \/ err.code = "already-exists"

ErrUserIdRequired ==
    [message |-> <<"User", "ID", "is", "required">>, code |-> "none"]
ErrIdConflict ==
    [message |-> <<"Unable", "to", "create", "task", "due", "to", "ID", "conflict.",
                   "Please", "try", "again.">>,
     code |-> "none"]

\* what addDoc can fail with when the generated id is taken
StoreCollisionErrors ==
    { [message |-> <<"ALREADY_EXISTS">>, code |-> "already-exists"],
      [message |-> <<"Document", "already", "exists">>, code |-> "unknown"] }
\* what addDoc can fail with otherwise
StoreOtherErrors ==
    { [message |-> <<"client", "is", "offline">>, code |-> "unavailable"] }

DocIds == 1..MaxDocId
\* getUserTasks not called
IdleQuery == [pc |-> "idle"]

\* the log entry of an addDoc attempt that succeeded
AttemptOk == [message |-> <<>>, code |-> "ok"]

\* the document addDoc writes; the clientId is an opaque nonce nothing reads
newTaskDoc(userId, taskData) ==
    Merge(taskData,
          [userId |-> userId, createdAt |-> "serverTimestamp",
           updatedAt |-> "serverTimestamp", clientId |-> <<userId, "Date.now()", "Math.random()">>])

\* the delay before the retry that follows a collision: 100 * attempt
retryDelay(attempt) == 100 * attempt

\* the catch block retrying whatever the error is
addTaskCatch_RetryAll(attempt, err) ==
    IF attempt < maxRetries - 1
    THEN <<"backoff", attempt + 1, err>>
    ELSE IF isAlreadyExists(err)
         THEN <<"thrown", attempt, ErrIdConflict>>
         ELSE <<"thrown", attempt, err>>

\* the catch block with the retries-left test off by one
addTaskCatch_OffByOne(attempt, err) ==
    IF isAlreadyExists(err) /\ attempt < maxRetries
    THEN <<"backoff", attempt + 1, err>>
    ELSE IF isAlreadyExists(err)
         THEN <<"thrown", attempt, ErrIdConflict>>
         ELSE <<"thrown", attempt, err>>

\* addTask's catch block: <<pc, attempt, err>> after an attempt failed with err
addTaskCatch(attempt, err) ==
    IF isAlreadyExists(err) /\ attempt < maxRetries - 1
    THEN <<"backoff", attempt + 1, err>>
    ELSE IF isAlreadyExists(err)
         THEN <<"thrown", attempt, ErrIdConflict>>
         ELSE <<"thrown", attempt, err>>

IdleCall ==
    [pc |-> "idle", userId |-> "", taskData |-> [title |-> ""], attempt |-> 0,
     delay |-> 0, log |-> <<>>, known |-> {}, result |-> 0,
     err |-> [message |-> <<>>, code |-> "none"], rejectValue |-> <<>>]

\* addTask without the userId check
addTaskStart_NoUserIdCheck(userId, taskData) ==
    [IdleCall EXCEPT !.pc = "writing", !.userId = userId, !.taskData = taskData,
                     !.known = DOMAIN docs]

\* addTask from its start to its first await: the loop is entered, the
\* userId check throws into the catch block or addDoc is issued
addTaskStart(userId, taskData) ==
    LET c == [IdleCall EXCEPT !.userId = userId, !.taskData = taskData,
                              !.known = DOMAIN docs]
    IN  IF userId = ""
        THEN LET r == addTaskCatch(0, ErrUserIdRequired)
             IN [c EXCEPT !.pc = r[1], !.attempt = r[2], !.err = r[3]]
        ELSE [c EXCEPT !.pc = "writing"]

\* addDoc succeeds: the document is stored under a fresh id, addTask returns it
AddDocOk ==
    /\ call.pc = "writing"
    /\ \E id \in DocIds \ DOMAIN docs :
          /\ docs' = docs @@ (id :> newTaskDoc(call.userId, call.taskData))
          /\ call' = [call EXCEPT !.pc = "returned", !.result = id,
                                  !.log = Append(@, AttemptOk)]
    /\ UNCHANGED <<containerVars, now, toggleVars, formData, submitLoading,
                   lastSubmitTime, submittedTaskHash, route, alert, suggVars, sessionVars, thunkVars, viewVars, listVars, queryVars, commentVars>>

\* addDoc fails: with a collision error when the generated id is taken, with
\* another error otherwise; addTask's catch block decides what follows
AddDocFail ==
    /\ call.pc = "writing"
    /\ \E err \in (IF DOMAIN docs # {} THEN StoreCollisionErrors ELSE {}) \cup StoreOtherErrors :
          LET r == addTaskCatch(call.attempt, err)
          IN call' = [call EXCEPT !.pc = r[1], !.attempt = r[2], !.err = r[3],
                                  !.delay = IF r[1] = "backoff" THEN retryDelay(r[2]) ELSE @,
                                  !.log = Append(@, err)]
    /\ UNCHANGED <<containerVars, docs, now, toggleVars, formData, submitLoading,
                   lastSubmitTime, submittedTaskHash, route, alert, suggVars, sessionVars, thunkVars, viewVars, listVars, queryVars, commentVars>>

\* the retry delay has elapsed: `continue` re-tests the loop condition; the
\* loop issues addDoc again, or ends and addTask returns undefined (0)
BackoffElapsed ==
    /\ call.pc = "backoff"
    /\ call' = IF call.attempt < maxRetries
               THEN [call EXCEPT !.pc = "writing"]
               ELSE [call EXCEPT !.pc = "returned", !.result = 0]
    /\ UNCHANGED <<containerVars, docs, now, toggleVars, formData, submitLoading,
                   lastSubmitTime, submittedTaskHash, route, alert, suggVars, sessionVars, thunkVars, viewVars, listVars, queryVars, commentVars>>

\* ---------------------------------------------- createTask thunk, reducers
\* the createTask thunk's fulfilled payload: { id: taskId, ...taskData, userId }
createTaskPayload(taskId, taskData, userId) ==
    Merge(Merge([id |-> taskId], taskData), [userId |-> userId])

\* rejectWithValue(error.message || 'Failed to create task')
createTaskRejectValue(err) ==
    IF err.message = <<>> THEN <<"Failed", "to", "create", "task">> ELSE err.message

\* createTask.fulfilled pushing the task at the end
createTaskFulfilled_Push(ts, payload) == ts \o <<payload>>

\* extraReducer createTask.fulfilled: state.tasks.unshift(action.payload)
createTaskFulfilled(ts, payload) == <<payload>> \o ts

\* the thunk settles: addTask returned and createTask.fulfilled is reduced, or
\* addTask threw and createTask.rejected is reduced
CreateSettle ==
    /\ call.pc \in {"returned", "thrown"}
    /\ IF call.pc = "returned"
       THEN /\ tasks' = createTaskFulfilled(tasks,
                            createTaskPayload(call.result, call.taskData, call.userId))
            /\ loading' = FALSE
            /\ call' = [call EXCEPT !.pc = "fulfilled"]
            /\ UNCHANGED error
       ELSE /\ loading' = FALSE
            /\ error' = createTaskRejectValue(call.err)
            /\ call' = [call EXCEPT !.pc = "rejected",
                                    !.rejectValue = createTaskRejectValue(call.err)]
            /\ UNCHANGED tasks
    /\ UNCHANGED <<lastUpdated, docs, now, toggleVars, formData, submitLoading,
                   lastSubmitTime, submittedTaskHash, route, alert, suggVars, sessionVars, thunkVars, viewVars, listVars, queryVars, commentVars>>

\* ------------------------------------------------------------ add-task page
Titles == {"", " ", "Write report"}
TaskTypes == {"task", "bug"}
UserIds == {"", "U1"}

\* title.trim()
Trim(title) == IF title = " " THEN "" ELSE title

EmptyForm ==
    [title |-> "", description |-> "", status |-> "pending", type |-> "task",
     dueDate |-> ""]

\* ViewTaskContent's editableTask before the task has loaded
EmptyEditable ==
    [title |-> "", description |-> "", status |-> "pending", type |-> "task",
     dueDate |-> ""]

\* `${title}_${description}_${type}_${dueDate}`
taskHashOf(fd) == <<fd.title, fd.description, fd.type, fd.dueDate>>

\* the rapid-submission window of handleSubmit: 2000 ms
SubmitDebounce == 2

AlertDuplicate ==
    <<"Task", "creation", "failed", "due", "to", "a", "duplicate", "ID.",
      "Please", "try", "again.">>
AlertGeneric == <<"Failed", "to", "create", "task.", "Please", "try", "again.">>

\* the message the catch block of handleSubmit shows for a rejection value
submitAlert(rejected) ==
    IF Includes(rejected, DocExistsNeedle) THEN AlertDuplicate ELSE AlertGeneric

\* handleInputChange
InputChange ==
    /\ route = "add-task"
    /\ \/ \E v \in Titles : formData' = [formData EXCEPT !.title = v]
       \/ \E v \in TaskTypes : formData' = [formData EXCEPT !.type = v]
    /\ UNCHANGED <<containerVars, docs, now, toggleVars, submitLoading,
                   lastSubmitTime, submittedTaskHash, route, alert, call, suggVars, sessionVars, thunkVars, viewVars, listVars, queryVars, commentVars>>

\* a status button of the form: setFormData(prev => ({ ...prev, status }))
SelectStatus(v) ==
    /\ route = "add-task"
    /\ formData' = [formData EXCEPT !.status = v]
    /\ UNCHANGED <<containerVars, docs, now, toggleVars, submitLoading,
                   lastSubmitTime, submittedTaskHash, route, alert, call, suggVars,
                   sessionVars, thunkVars, viewVars, listVars, queryVars, commentVars>>

\* handleSubmit up to its await: the guards, the bookkeeping, the dispatch of
\* createTask (createTask.pending) and the start of addTask; userId is the
\* uid the auth context supplies
Submit(userId) ==
    /\ route = "add-task"
    /\ IF \/ Trim(formData.title) = ""
          \/ submitLoading
          \/ now - lastSubmitTime < SubmitDebounce
          \/ submittedTaskHash = taskHashOf(formData)
       THEN UNCHANGED vars
       ELSE /\ lastSubmitTime' = now
            /\ submittedTaskHash' = taskHashOf(formData)
            /\ submitLoading' = TRUE
            /\ loading' = TRUE
            /\ error' = NoError
            /\ call' = addTaskStart(userId, formData)
            /\ UNCHANGED <<tasks, lastUpdated, docs, now, toggleVars, formData,
                           route, alert, suggVars, sessionVars, thunkVars, viewVars, listVars, queryVars, commentVars>>

\* handleSubmit after its await: router.push('/') on success; on a rejection
\* the hash is reset and the alert chosen; then the finally block
SubmitResume ==
    /\ call.pc \in {"fulfilled", "rejected"}
    /\ IF call.pc = "fulfilled"
       THEN /\ route' = "list"
            /\ call' = [call EXCEPT !.pc = "done-fulfilled"]
            /\ UNCHANGED <<submittedTaskHash, alert>>
       ELSE /\ submittedTaskHash' = NoHash
            /\ alert' = submitAlert(call.rejectValue)
            /\ call' = [call EXCEPT !.pc = "done-rejected"]
            /\ UNCHANGED route
    /\ submitLoading' = FALSE
    /\ UNCHANGED <<containerVars, docs, now, toggleVars, formData, lastSubmitTime,
                   suggVars, sessionVars, thunkVars, viewVars, listVars, queryVars, commentVars>>

\* the add-task page is opened again: a fresh mount of AddTaskContent
OpenAddTask ==
    /\ route = "list"
    /\ route' = "add-task"
    /\ formData' = EmptyForm
    /\ submitLoading' = FALSE
    /\ lastSubmitTime' = 0
    /\ submittedTaskHash' = NoHash
    /\ UNCHANGED <<containerVars, docs, now, toggleVars, alert, call, suggVars, sessionVars, thunkVars, viewVars, listVars, queryVars, commentVars>>

\* time passes in the add-task page's system
TickSubmit ==
    /\ now < MaxSubmitTime
    /\ now' = now + 1
    /\ UNCHANGED <<containerVars, docs, toggleVars, addVars, suggVars, sessionVars, thunkVars, viewVars, listVars, queryVars, commentVars>>

\* ------------------------------------------------------ suggestion endpoint
\* const MAX_FREE_SUGGESTIONS = 20
MAX_FREE_SUGGESTIONS == 20

ReqSlots == 1..MaxReqs
TaskNames == {"", "Write report"}

NoStats == [exists |-> FALSE, suggestionCount |-> 0]

IdleReq ==
    [pc |-> "idle", userId |-> "", taskName |-> "", snapExists |-> FALSE,
     suggestionCount |-> 0, calledProvider |-> FALSE, wroteAnalytics |-> FALSE,
     wroteStats |-> FALSE, status |-> 0, body |-> [error |-> "none"]]

\* a finished request: its response
Respond(req, status, body) == [req EXCEPT !.pc = "done", !.status = status, !.body = body]

\* the catch block of POST, for an error with this code
errorResponse(req, code) ==
    IF code = "insufficient_quota"
    THEN Respond(req, 503, [error |-> "OpenAI API quota exceeded"])
    ELSE Respond(req, 500, [error |-> "Internal server error"])

\* let suggestionCount = 0; if (snap.exists()) suggestionCount = data.suggestionCount || 0
readCount(stats) == IF stats.exists THEN stats.suggestionCount ELSE 0

\* the limit test with > for >=
limitReached_Strict(suggestionCount) == suggestionCount > MAX_FREE_SUGGESTIONS

\* if (suggestionCount >= MAX_FREE_SUGGESTIONS)
limitReached(suggestionCount) == suggestionCount >= MAX_FREE_SUGGESTIONS

\* the 429 body
limitBody(suggestionCount) ==
    [error |-> "LIMIT_REACHED", count |-> suggestionCount, limit |-> MAX_FREE_SUGGESTIONS]

\* remainingCount computed from the count before the increment
remainingCount_BeforeIncrement(suggestionCount) == MAX_FREE_SUGGESTIONS - suggestionCount

\* remainingCount: MAX_FREE_SUGGESTIONS - (suggestionCount + 1)
remainingCount(suggestionCount) == MAX_FREE_SUGGESTIONS - (suggestionCount + 1)

\* the userStats document after the update: updateDoc on the document the
\* request saw, setDoc of a new document when it saw none
writeStats(snapExists, suggestionCount) ==
    IF snapExists
    THEN [exists |-> TRUE, suggestionCount |-> suggestionCount + 1]
    ELSE [exists |-> TRUE, suggestionCount |-> 1]

\* POST from its start to its first await: the body is parsed and validated,
\* then getDoc(userStatsRef) is issued
ReceiveRequest(r, userId, taskName) ==
    /\ reqs[r].pc \in {"idle", "done"}
    /\ started < MaxStarted
    /\ started' = started + 1
    /\ LET req == [IdleReq EXCEPT !.userId = userId, !.taskName = taskName] IN
       reqs' = [reqs EXCEPT ![r] =
                   IF userId = "" \/ taskName = ""
                   THEN Respond(req, 400, [error |-> "User ID and task name are required"])
                   ELSE [req EXCEPT !.pc = "getDoc"]]
    /\ UNCHANGED <<containerVars, docs, now, toggleVars, addVars, sessionVars, thunkVars, viewVars, listVars, queryVars, commentVars, userStats>>

\* getDoc settles: the count is read and the limit checked; below the limit
\* the prompt is built and the provider called
ReadStats(r, ok) ==
    /\ reqs[r].pc = "getDoc"
    /\ reqs' = [reqs EXCEPT ![r] =
         IF ~ok THEN errorResponse(@, "unavailable")
         ELSE LET suggestionCount == readCount(userStats) IN
              IF limitReached(suggestionCount)
              THEN Respond([@ EXCEPT !.snapExists = userStats.exists,
                                     !.suggestionCount = suggestionCount],
                           429, limitBody(suggestionCount))
              ELSE [@ EXCEPT !.pc = "generating", !.snapExists = userStats.exists,
                             !.suggestionCount = suggestionCount,
                             !.calledProvider = TRUE]]
    /\ UNCHANGED <<containerVars, docs, now, toggleVars, addVars, sessionVars, thunkVars, viewVars, listVars, queryVars, commentVars, userStats, started>>

GenerationOutcomes == {"content", "empty", "insufficient_quota", "error"}

\* the provider call settles: an empty completion is a 500, a throw goes to
\* the catch block, a completion is stored with setDoc
Generated(r, outcome) ==
    /\ reqs[r].pc = "generating"
    /\ reqs' = [reqs EXCEPT ![r] =
         CASE outcome = "content" -> [@ EXCEPT !.pc = "storing"]
           [] outcome = "empty" -> Respond(@, 500, [error |-> "Failed to generate suggestion"])
           [] OTHER -> errorResponse(@, outcome)]
    /\ UNCHANGED <<containerVars, docs, now, toggleVars, addVars, sessionVars, thunkVars, viewVars, listVars, queryVars, commentVars, userStats, started>>

\* the analytics setDoc settles; then the userStats update is issued
AnalyticsStored(r, ok) ==
    /\ reqs[r].pc = "storing"
    /\ reqs' = [reqs EXCEPT ![r] =
         IF ok THEN [@ EXCEPT !.pc = "updating", !.wroteAnalytics = TRUE]
         ELSE errorResponse(@, "unavailable")]
    /\ UNCHANGED <<containerVars, docs, now, toggleVars, addVars, sessionVars, thunkVars, viewVars, listVars, queryVars, commentVars, userStats, started>>

\* the userStats update settles; then the 200 response
StatsUpdated(r, ok) ==
    /\ reqs[r].pc = "updating"
    /\ IF ok
       THEN /\ userStats' = writeStats(reqs[r].snapExists, reqs[r].suggestionCount)
            /\ reqs' = [reqs EXCEPT ![r] =
                 Respond([@ EXCEPT !.wroteStats = TRUE], 200,
                         [suggestion |-> "content", isFromCache |-> FALSE,
                          remainingCount |-> remainingCount(reqs[r].suggestionCount)])]
       ELSE /\ reqs' = [reqs EXCEPT ![r] = errorResponse(@, "unavailable")]
            /\ UNCHANGED userStats
    /\ UNCHANGED <<containerVars, docs, now, toggleVars, addVars, sessionVars, thunkVars, viewVars, listVars, queryVars, commentVars, started>>

\* ---------------------------------------------------------------- authSlice
\* state.auth.user when null
NoUser == "null"
\* the accounts that sign in on this browser
SessionUsers == {"U1"}

\* authSlice initialState
initialAuth ==
    [user |-> NoUser, loading |-> TRUE, isAuthenticated |-> FALSE, error |-> NoError]

\* reducer setLoading
setLoading(a, payload) == [a EXCEPT !.loading = payload]

\* reducer setError
setError(a, payload) == [a EXCEPT !.error = payload, !.loading = FALSE]

\* reducer clearError
clearError(a) == [a EXCEPT !.error = NoError]

\* setUser leaving the error as it is
setUser_KeepsError(a, payload) ==
    [a EXCEPT !.user = payload, !.isAuthenticated = (payload # NoUser),
              !.loading = FALSE]

\* reducer setUser
setUser(a, payload) ==
    [a EXCEPT !.user = payload, !.isAuthenticated = (payload # NoUser),
              !.loading = FALSE, !.error = NoError]

\* reducer clearUser
clearUser(a) ==
    [a EXCEPT !.user = NoUser, !.isAuthenticated = FALSE, !.loading = FALSE,
              !.error = NoError]

\* ------------------------------------------- tasksSlice as a state record
\* state.tasks.lastUpdated when null
NoLastUpdated == 0

\* state.tasks, the container, as one record
Container ==
    [tasks |-> tasks, loading |-> loading, error |-> error, lastUpdated |-> lastUpdated]

\* tasksSlice initialState
initialState ==
    [tasks |-> <<>>, loading |-> FALSE, error |-> NoError, lastUpdated |-> NoLastUpdated]

\* the container after a reducer returned st
Reduce(st) ==
    /\ tasks' = st.tasks
    /\ loading' = st.loading
    /\ error' = st.error
    /\ lastUpdated' = st.lastUpdated

\* reducer clearTasks
clearTasks(st) ==
    [st EXCEPT !.tasks = <<>>, !.error = NoError, !.lastUpdated = NoLastUpdated]

\* extraReducers of fetchTasks
fetchTasksPending(st) == [st EXCEPT !.loading = TRUE, !.error = NoError]

\* fetchTasks.fulfilled keeping the tasks it held in front of the result
fetchTasksFulfilled_KeepsOld(st, payload, time) ==
    [st EXCEPT !.loading = FALSE, !.tasks = st.tasks \o payload, !.lastUpdated = time]

fetchTasksFulfilled(st, payload, time) ==
    [st EXCEPT !.loading = FALSE, !.tasks = payload, !.lastUpdated = time]

\* fetchTasks.rejected emptying the collection
fetchTasksRejected_DropsTasks(st, payload) ==
    [st EXCEPT !.loading = FALSE, !.error = payload, !.tasks = <<>>]

fetchTasksRejected(st, payload) == [st EXCEPT !.loading = FALSE, !.error = payload]

\* extraReducer createTask.pending
createTaskPending(st) == [st EXCEPT !.loading = TRUE, !.error = NoError]

\* editTask.pending raising the global loading flag
editTaskPending_SetsLoading(st) == [st EXCEPT !.error = NoError, !.loading = TRUE]

\* extraReducers editTask.pending and editTask.rejected
editTaskPending(st) == [st EXCEPT !.error = NoError]

editTaskRejected(st, payload) == [st EXCEPT !.error = payload]

\* ------------------------------------------------------------ getUserTasks
\* Timestamp.toDate().toISOString() on the server timestamps of a document
toISOString(v) == IF v = "serverTimestamp" THEN "ISO(serverTimestamp)" ELSE v

\* convertTaskData: id, the document's data, the timestamps as ISO strings; a
\* completedAt the store holds is an ISO string already and passes unchanged
convertTaskData(id, data) ==
    Merge(Merge([id |-> id], data),
          [createdAt |-> toISOString(data.createdAt),
           updatedAt |-> toISOString(data.updatedAt),
           completedAt |-> IF "completedAt" \in DOMAIN data
                           THEN data.completedAt ELSE NoCompletedAt])

\* the ids of S as a sequence, greatest first
RECURSIVE Descending(_)
Descending(S) ==
    IF S = {} THEN <<>>
    ELSE LET m == CHOOSE x \in S : \A y \in S : y <= x
         IN <<m>> \o Descending(S \ {m})

\* the query where userId == userId orderBy createdAt desc; the documents carry
\* one createdAt placeholder, and the store orders equal keys by document id
getUserTasks(ds, userId) ==
    LET ids == Descending({id \in DOMAIN ds : ds[id].userId = userId})
    IN [i \in 1..Len(ids) |-> convertTaskData(ids[i], ds[ids[i]])]

\* ------------------------------------------ thunks dispatched to the container
IdleFetch == [pc |-> "idle", userId |-> NoUser]
IdleEdit == [pc |-> "idle", taskId |-> 0, taskData |-> [status |-> "pending"]]

ErrFetch == <<"Missing", "or", "insufficient", "permissions.">>
ErrEdit == <<"update", "failed">>

\* the task data a create is dispatched with
NewTaskForm ==
    [title |-> "Write report", description |-> "", status |-> "pending",
     type |-> "task", dueDate |-> ""]

\* the partial data an edit is dispatched with at this time
EditPayloads(time) ==
    { [title |-> "Renamed"], [status |-> "completed", completedAt |-> time] }

\* the updates a local patch is dispatched with
PatchPayloads == { [status |-> "in-progress"] }

\* the callback of onAuthStateChanged without the clearTasks dispatch
onAuthStateChanged_KeepsTasks(a, st, u) ==
    IF u # NoUser THEN <<setUser(a, u), st>> ELSE <<clearUser(a), st>>

\* the callback of onAuthStateChanged: <<state.auth, state.tasks>> after it
onAuthStateChanged(a, st, u) ==
    IF u # NoUser THEN <<setUser(a, u), st>> ELSE <<clearUser(a), clearTasks(st)>>

\* the identity provider notifies the session of the signed-in user, or of none
AuthStateChanged(u) ==
    /\ LET r == onAuthStateChanged(auth, Container, u)
       IN /\ auth' = r[1]
          /\ Reduce(r[2])
    /\ UNCHANGED <<docs, now, toggleVars, addVars, suggVars, thunkVars, viewVars, listVars, queryVars, commentVars>>

\* dispatch(fetchTasks(user.uid)) by an effect of a page: fetchTasks.pending
FetchDispatch ==
    /\ auth.user # NoUser
    /\ fetch.pc # "pending"
    /\ dispatched < MaxDispatched
    /\ dispatched' = dispatched + 1
    /\ fetch' = [pc |-> "pending", userId |-> auth.user]
    /\ Reduce(fetchTasksPending(Container))
    /\ UNCHANGED <<docs, now, toggleVars, addVars, suggVars, sessionVars, edit, viewVars, listVars, queryVars, commentVars>>

\* getUserTasks returned: fetchTasks.fulfilled. Every task of the result is a
\* new object: a mounted view-task page whose task is in it runs its effect
\* on [task] (editableTask from the task) and sets a new debounce timeout
FetchFulfilled ==
    /\ fetch.pc = "pending"
    /\ fetch' = [fetch EXCEPT !.pc = "fulfilled"]
    /\ Reduce(fetchTasksFulfilled(Container, getUserTasks(docs, fetch.userId), now))
    /\ ViewTaskEffect(viewedId)
    /\ UNCHANGED <<docs, now, toggleVars, addVars, suggVars, sessionVars, edit,
                   dispatched, saving, userChanged, lastChangeAt, listVars, queryVars,
                   commentVars>>

\* getUserTasks threw: fetchTasks.rejected with the error's message
FetchRejected ==
    /\ fetch.pc = "pending"
    /\ fetch' = [fetch EXCEPT !.pc = "rejected"]
    /\ Reduce(fetchTasksRejected(Container, ErrFetch))
    /\ UNCHANGED <<docs, now, toggleVars, addVars, suggVars, sessionVars, edit,
                   dispatched, viewVars, listVars, queryVars, commentVars>>

\* dispatch(createTask({ userId: user.uid, taskData })): createTask.pending
\* and the start of addTask
CreateDispatch(taskData) ==
    /\ auth.user # NoUser
    /\ call.pc \in {"idle", "fulfilled", "rejected"}
    /\ dispatched < MaxDispatched
    /\ dispatched' = dispatched + 1
    /\ call' = addTaskStart(auth.user, taskData)
    /\ Reduce(createTaskPending(Container))
    /\ UNCHANGED <<docs, now, toggleVars, formData, submitLoading, lastSubmitTime,
                   submittedTaskHash, route, alert, suggVars, sessionVars, fetch,
                   edit, viewVars, listVars, queryVars, commentVars>>

\* dispatch(editTask({ taskId, taskData })) for a task the page shows:
\* editTask.pending
EditDispatch(taskId, taskData) ==
    /\ auth.user # NoUser
    /\ findIndex(tasks, taskId) # 0
    /\ edit.pc # "pending"
    /\ dispatched < MaxDispatched
    /\ dispatched' = dispatched + 1
    /\ edit' = [pc |-> "pending", taskId |-> taskId, taskData |-> taskData]
    /\ Reduce(editTaskPending(Container))
    /\ UNCHANGED <<docs, now, toggleVars, addVars, suggVars, sessionVars, fetch, viewVars, listVars, queryVars, commentVars>>

\* updateTask returned: editTask.fulfilled
EditTaskFulfilled ==
    /\ edit.pc = "pending"
    /\ edit' = [edit EXCEPT !.pc = "fulfilled"]
    /\ docs' = updateTask(docs, edit.taskId, edit.taskData)
    /\ tasks' = editTaskFulfilled(tasks, editTaskPayload(edit.taskId, edit.taskData))
    /\ UNCHANGED <<loading, error, lastUpdated, now, toggleVars, addVars, suggVars,
                   sessionVars, fetch, dispatched, viewVars, listVars, queryVars, commentVars>>

\* updateTask threw: editTask.rejected with the error's message
EditTaskRejected ==
    /\ edit.pc = "pending"
    /\ edit' = [edit EXCEPT !.pc = "rejected"]
    /\ Reduce(editTaskRejected(Container, ErrEdit))
    /\ UNCHANGED <<docs, now, toggleVars, addVars, suggVars, sessionVars, fetch,
                   dispatched, viewVars, listVars, queryVars, commentVars>>

\* dispatch(updateTaskLocal({ taskId, updates })): the optimistic patch of a
\* row, or its revert, which can follow a clear
PatchLocal(taskId, updates) ==
    /\ tasks' = updateTaskLocal(tasks, taskId, updates)
    /\ UNCHANGED <<loading, error, lastUpdated, docs, now, toggleVars, addVars,
                   suggVars, sessionVars, thunkVars, viewVars, listVars, queryVars, commentVars>>

\* ------------------------------------------------------- the view-task page
\* the id of the task the page shows (params.id)
ViewTaskId == 1
\* what the user types into the title field
ViewTitles == {"Fix login", "Renamed"}

\* selectTaskById(taskId): the task of the container the page shows
ViewTask == tasks[findIndex(tasks, ViewTaskId)]

\* the test of the debounced-save timeout: a text field differs from the task
textDiffers(editable, task) ==
    \/ editable.title # task.title
    \/ editable.description # task.description
    \/ editable.dueDate # task.dueDate

\* the updates the debounced save sends
textUpdates(editable) ==
    [title |-> editable.title, description |-> editable.description,
     dueDate |-> editable.dueDate]

\* the updates handleStatusChange sends
statusUpdates(newStatus, editable, time) ==
    IF newStatus = "completed" /\ editable.status # "completed"
    THEN [status |-> newStatus, completedAt |-> time]
    ELSE [status |-> newStatus]

\* the clock of the view-task page runs up to here
MaxViewTime == 4

\* time passes on the view-task page
TickView ==
    /\ now < MaxViewTime
    /\ now' = now + 1
    /\ UNCHANGED <<containerVars, docs, toggleVars, addVars, suggVars, sessionVars,
                   thunkVars, viewVars, listVars, queryVars, commentVars>>

\* saveTaskChanges up to its await: the guard, setSaving(true) and the
\* dispatch of editTask (editTask.pending)
saveTaskChanges(updates) ==
    IF findIndex(tasks, ViewTaskId) = 0 \/ saving
    THEN /\ UNCHANGED <<saving, edit, error>>
    ELSE /\ saving' = TRUE
         /\ edit' = [pc |-> "pending", taskId |-> ViewTaskId, taskData |-> updates]
         /\ error' = NoError

\* the user types a title: setEditableTask; the debounced-save effect runs
\* again on the new title, clearing the timeout and setting a new one
TypeTitle(v) ==
    /\ findIndex(tasks, ViewTaskId) # 0
    /\ v # editableTask.title
    /\ editableTask' = [editableTask EXCEPT !.title = v]
    /\ timer' = now + SaveDebounce
    /\ userChanged' = TRUE
    /\ lastChangeAt' = now
    /\ UNCHANGED <<containerVars, docs, now, toggleVars, addVars, suggVars,
                   sessionVars, thunkVars, saving, listVars, queryVars, commentVars>>

\* the timeout of the debounced-save effect fires, at its due time or later:
\* a save when a text field differs from the task; setSaving(true) changes
\* saveTaskChanges, so the effect runs again and sets a new timeout
TimerFires ==
    /\ timer # NoTimer
    /\ now >= timer
    /\ IF findIndex(tasks, ViewTaskId) # 0 /\ textDiffers(editableTask, ViewTask)
       THEN /\ saveTaskChanges(textUpdates(editableTask))
            /\ timer' = IF saving' # saving THEN now + SaveDebounce ELSE NoTimer
            /\ userChanged' = IF saving' # saving THEN FALSE ELSE userChanged
       ELSE /\ timer' = NoTimer
            /\ UNCHANGED <<saving, edit, error, userChanged>>
    /\ UNCHANGED <<tasks, loading, lastUpdated, docs, now, toggleVars, addVars,
                   suggVars, sessionVars, fetch, dispatched, editableTask,
                   lastChangeAt, listVars, queryVars, commentVars>>

\* handleStatusChange up to its await: the updates, setEditableTask and
\* saveTaskChanges; the select fires onChange for another value only
StatusChange(newStatus) ==
    /\ findIndex(tasks, ViewTaskId) # 0
    /\ newStatus # editableTask.status
    /\ editableTask' = [editableTask EXCEPT !.status = newStatus]
    /\ saveTaskChanges(statusUpdates(newStatus, editableTask, now))
    /\ timer' = IF saving' # saving THEN now + SaveDebounce ELSE timer
    /\ UNCHANGED <<tasks, loading, lastUpdated, docs, now, toggleVars, addVars,
                   suggVars, sessionVars, fetch, dispatched, userChanged,
                   lastChangeAt, listVars, queryVars, commentVars>>

\* the edit of the page settles. Fulfilled: the store and the container take
\* the data, the task object is a new one, so the effect on [task] sets
\* editableTask from it and the debounced-save effect sets a new timeout.
\* Rejected: only error changes.
ViewEditSettled(ok) ==
    /\ edit.pc = "pending"
    /\ IF ok
       THEN /\ docs' = updateTask(docs, edit.taskId, edit.taskData)
            /\ tasks' = editTaskFulfilled(tasks, editTaskPayload(edit.taskId, edit.taskData))
            /\ edit' = [edit EXCEPT !.pc = "fulfilled"]
            /\ IF findIndex(tasks, edit.taskId) # 0
               THEN /\ editableTask' = editableFrom(ViewTask')
                    /\ timer' = now + SaveDebounce
               ELSE UNCHANGED <<editableTask, timer>>
            /\ UNCHANGED error
       ELSE /\ error' = ErrEdit
            /\ edit' = [edit EXCEPT !.pc = "rejected"]
            /\ UNCHANGED <<docs, tasks, editableTask, timer>>
    /\ UNCHANGED <<loading, lastUpdated, now, toggleVars, addVars, suggVars,
                   sessionVars, fetch, dispatched, saving, userChanged,
                   lastChangeAt, listVars, queryVars, commentVars>>

\* saveTaskChanges after its await: the catch block logs, the finally block
\* does setSaving(false); saveTaskChanges changes again and the effect sets
\* a new timeout
SaveResume ==
    /\ edit.pc \in {"fulfilled", "rejected"}
    /\ edit' = [edit EXCEPT !.pc = IF edit.pc = "rejected" THEN "done-rejected"
                                   ELSE "done-fulfilled"]
    /\ saving' = FALSE
    /\ timer' = now + SaveDebounce
    /\ UNCHANGED <<containerVars, docs, now, toggleVars, addVars, suggVars,
                   sessionVars, fetch, dispatched, editableTask, userChanged,
                   lastChangeAt, listVars, queryVars, commentVars>>

\* the fetch-if-not-loaded effect of the view-task page, on [user, task,
\* tasksLoading, dispatch]: it runs again after the render that follows a
\* settled fetch (tasksLoading has changed) and dispatches fetchTasks when the
\* user is signed in, the task is not in the container and no fetch is loading
ViewFetchEffect ==
    /\ route = "view-task"
    /\ viewedId # NoTask
    /\ fetch.pc \in {"fulfilled", "rejected"}
    /\ auth.user # NoUser
    /\ findIndex(tasks, viewedId) = 0
    /\ ~loading
    /\ fetch' = [pc |-> "pending", userId |-> auth.user]
    /\ Reduce(fetchTasksPending(Container))
    /\ UNCHANGED <<docs, now, toggleVars, addVars, suggVars, sessionVars, edit,
                   dispatched, viewVars, listVars, queryVars, commentVars>>

\* ------------------------------------------ getUserTasks, query by query
\* a Timestamp the server wrote counts ticks finer than a millisecond
MaxCreatedAt == 3
TicksPerMs == 2
QueryUsers == {"U1", "U2"}

\* what the ordered or the second query can fail with
IndexMissing == "failed-precondition"
Unavailable == "unavailable"

\* Timestamp.toDate().toISOString(): the milliseconds of the Timestamp
timestampToISO(ts) == <<"ISO", ts \div TicksPerMs>>

\* new Date(iso): the milliseconds an ISO string stands for
DateOf(iso) == iso[2]

\* a createdAt that is undefined
NoIso == <<>>

\* convertTaskData on a document whose createdAt and updatedAt hold Timestamps
convertTimestamps(id, data) ==
    Merge(Merge([id |-> id], data),
          [createdAt |-> timestampToISO(data.createdAt),
           updatedAt |-> timestampToISO(data.updatedAt)])

\* the comparator of the client-side sort, oldest first
compareCreatedAt_Ascending(a, b) ==
    IF a.createdAt = NoIso \/ b.createdAt = NoIso THEN 0
    ELSE DateOf(a.createdAt) - DateOf(b.createdAt)

\* the comparator of the client-side sort
compareCreatedAt(a, b) ==
    IF a.createdAt = NoIso \/ b.createdAt = NoIso THEN 0
    ELSE DateOf(b.createdAt) - DateOf(a.createdAt)

\* tasks.sort(comparator): Array.prototype.sort is stable; each task goes
\* behind the tasks that do not come after it
RECURSIVE sortTasks(_)
sortTasks(ts) ==
    IF ts = <<>> THEN <<>>
    ELSE LET front == sortTasks(SubSeq(ts, 1, Len(ts) - 1))
             x == ts[Len(ts)]
             k == IF \E i \in 1..Len(front) : compareCreatedAt(front[i], x) > 0
                  THEN (CHOOSE i \in 1..Len(front) :
                           /\ compareCreatedAt(front[i], x) > 0
                           /\ \A j \in 1..(i - 1) : compareCreatedAt(front[j], x) <= 0) - 1
                  ELSE Len(front)
         IN SubSeq(front, 1, k) \o <<x>> \o SubSeq(front, k + 1, Len(front))

\* the ids of S in the order the store returns them for orderBy createdAt
\* desc: by Timestamp, newest first, equal Timestamps by document id
RECURSIVE ByCreatedAtDesc(_, _)
ByCreatedAtDesc(ds, S) ==
    IF S = {} THEN <<>>
    ELSE LET m == CHOOSE x \in S : \A y \in S :
                     \/ ds[y].createdAt < ds[x].createdAt
                     \/ ds[y].createdAt = ds[x].createdAt /\ y <= x
         IN <<m>> \o ByCreatedAtDesc(ds, S \ {m})

\* the ids of S in document-id order, as a query without orderBy returns them
RECURSIVE Ascending(_)
Ascending(S) ==
    IF S = {} THEN <<>>
    ELSE LET m == CHOOSE x \in S : \A y \in S : x <= y
         IN <<m>> \o Ascending(S \ {m})

\* the first query: where userId == userId, orderBy createdAt desc, each
\* document through convertTaskData
orderedQuery(ds, userId) ==
    LET ids == ByCreatedAtDesc(ds, {id \in DOMAIN ds : ds[id].userId = userId})
    IN [i \in 1..Len(ids) |-> convertTimestamps(ids[i], ds[ids[i]])]

\* the second query: where userId == userId, each document through
\* convertTaskData, then the client-side sort
fallbackQuery(ds, userId) ==
    LET ids == Ascending({id \in DOMAIN ds : ds[id].userId = userId})
    IN sortTasks([i \in 1..Len(ids) |-> convertTimestamps(ids[i], ds[ids[i]])])

\* getUserTasks(userId) is called and issues the ordered query
QueryStart(userId) ==
    /\ query.pc \in {"idle", "returned", "threw"}
    /\ query' = [pc |-> "ordered", userId |-> userId, issued |-> 1]
    /\ UNCHANGED <<containerVars, docs, now, toggleVars, addVars, suggVars, sessionVars,
                   thunkVars, viewVars, listVars, commentVars>>

\* the ordered query settles: its tasks are returned, or it throws and the
\* catch block, whatever the error, issues the second query
OrderedSettles(outcome) ==
    /\ query.pc = "ordered"
    /\ query' = IF outcome = "ok"
                THEN [pc |-> "returned", userId |-> query.userId, issued |-> query.issued,
                      path |-> "ordered", result |-> orderedQuery(docs, query.userId)]
                ELSE [pc |-> "fallback", userId |-> query.userId,
                      issued |-> query.issued + 1, indexError |-> outcome]
    /\ UNCHANGED <<containerVars, docs, now, toggleVars, addVars, suggVars, sessionVars,
                   thunkVars, viewVars, listVars, commentVars>>

\* the second query settles: its tasks are sorted and returned, or it throws
\* and the outer catch block throws the error on
FallbackSettles(outcome) ==
    /\ query.pc = "fallback"
    /\ query' = IF outcome = "ok"
                THEN [pc |-> "returned", userId |-> query.userId, issued |-> query.issued,
                      path |-> "fallback", result |-> fallbackQuery(docs, query.userId)]
                ELSE [pc |-> "threw", userId |-> query.userId, issued |-> query.issued,
                      error |-> outcome]
    /\ UNCHANGED <<containerVars, docs, now, toggleVars, addVars, suggVars, sessionVars,
                   thunkVars, viewVars, listVars, commentVars>>

\* ------------------------------------------- comments and the pages' mounting
\* the comments the store holds over all tasks are at most this many
MaxComments == 2

\* what the user writes as a comment
CommentTexts == {"Looks good", "Please check"}

\* the comments of all tasks together
TotalComments(cd) ==
    LET RECURSIVE Sum(_)
        Sum(S) == IF S = {} THEN 0
                  ELSE LET x == CHOOSE y \in S : TRUE IN Len(cd[x]) + Sum(S \ {x})
    IN Sum(DOMAIN cd)

\* snapshot.docs.map(doc => ({ id: doc.id, ...doc.data() })) of the query
\* orderBy('createdAt', 'asc'); the n-th comment of a task has the document
\* id <<taskId, n>>
toComments(taskId, ds) ==
    [n \in 1..Len(ds) |-> Merge([id |-> <<taskId, n>>], ds[n])]

\* the cleanup of the comments effect leaving the listener in place
unsubscribe_Leaks(ss, taskId) == ss

\* the cleanup of the comments effect: unsubscribe() of the listener the
\* effect's run for taskId registered
unsubscribe(ss, taskId) ==
    LET other(id) == id # taskId IN SelectSeq(ss, other)

\* getTaskCommentCount(taskId): the count aggregate, 0 when the call throws
getTaskCommentCount(cd, taskId, outcome) ==
    IF outcome = "ok" THEN Len(cd[taskId]) ELSE 0

\* getTaskCommentCounts leaving out the ids whose count failed
getTaskCommentCounts_SkipsFailed(cd, taskIds, outcomes) ==
    [id \in {t \in taskIds : outcomes[t] = "ok"} |->
        getTaskCommentCount(cd, id, outcomes[id])]

\* getTaskCommentCounts(taskIds): commentCounts[taskId] = count for every id
\* (its catch block is reached only when taskIds.map throws, which it does not
\* on an array of ids)
getTaskCommentCounts(cd, taskIds, outcomes) ==
    [id \in taskIds |-> getTaskCommentCount(cd, id, outcomes[id])]

\* the state of TaskList as it mounts
ListMounts ==
    /\ filters' = [status |-> "all", type |-> "all"]
    /\ pagination' = [currentPage |-> 1, itemsPerPage |-> 20]
    /\ resetPending' = FALSE
    /\ commentCounts' = <<>>

\* navigateToViewTask(taskId), from the View button of a row (the rows are
\* rendered when the container is not loading): router.push to the view-task
\* page. TaskList
\* unmounts (its state goes); ViewTaskContent mounts with its initial state
\* and runs its effects: no fetch (the task is loaded), editableTask from the
\* task, the debounce timeout, the comments listener
OpenViewTask(taskId) ==
    /\ route = "list"
    /\ ~loading
    /\ ~resetPending
    /\ findIndex(tasks, taskId) # 0
    /\ route' = "view-task"
    /\ ListMounts
    /\ updatingTasks' = {}
    /\ viewedId' = taskId
    /\ editableTask' = editableFrom(tasks[findIndex(tasks, taskId)])
    /\ saving' = FALSE
    /\ timer' = now + SaveDebounce
    /\ userChanged' = FALSE
    /\ lastChangeAt' = 0
    /\ subs' = Append(subs, taskId)
    /\ comments' = <<>>
    /\ UNCHANGED <<containerVars, docs, now, toggles, formData, submitLoading,
                   lastSubmitTime, submittedTaskHash, alert, call, suggVars,
                   sessionVars, thunkVars, queryVars, commentDocs>>

\* params.id changes under the mounted page (history navigation between two
\* view-task entries): the effects on [taskId] and [task] run again: the
\* cleanup of the comments effect, a new listener, editableTask from the new
\* task, a new timeout
ChangeViewedTask(taskId) ==
    /\ route = "view-task"
    /\ viewedId # NoTask
    /\ taskId # viewedId
    /\ findIndex(tasks, taskId) # 0
    /\ viewedId' = taskId
    /\ subs' = Append(unsubscribe(subs, viewedId), taskId)
    /\ editableTask' = editableFrom(tasks[findIndex(tasks, taskId)])
    /\ timer' = now + SaveDebounce
    /\ UNCHANGED <<containerVars, docs, now, toggleVars, addVars, suggVars, sessionVars,
                   thunkVars, saving, userChanged, lastChangeAt, listVars, queryVars,
                   comments, commentDocs>>

\* handleBack: router.push('/'). ViewTaskContent unmounts: the cleanups
\* unsubscribe the listener and clear the timeout, its state goes. TaskList
\* mounts with its initial state and its fetch effect dispatches fetchTasks
\* (a fetch still pending and the new one read the same store and are
\* followed as one)
BackToList ==
    /\ route = "view-task"
    /\ viewedId # NoTask
    /\ route' = "list"
    /\ viewedId' = NoTask
    /\ subs' = unsubscribe(subs, viewedId)
    /\ comments' = <<>>
    /\ editableTask' = EmptyEditable
    /\ saving' = FALSE
    /\ timer' = NoTimer
    /\ userChanged' = FALSE
    /\ lastChangeAt' = 0
    /\ ListMounts
    /\ updatingTasks' = {}
    /\ fetch' = [pc |-> "pending", userId |-> auth.user]
    /\ Reduce(fetchTasksPending(Container))
    /\ UNCHANGED <<docs, now, toggles, formData, submitLoading, lastSubmitTime,
                   submittedTaskHash, alert, call, suggVars, sessionVars, edit,
                   dispatched, queryVars, commentDocs>>

\* handleAddComment: addDoc into the comments of the viewed task
AddComment(text) ==
    /\ viewedId # NoTask
    /\ TotalComments(commentDocs) < MaxComments
    /\ commentDocs' = [commentDocs EXCEPT ![viewedId] =
                          Append(@, [text |-> text, authorId |-> auth.user])]
    /\ UNCHANGED <<containerVars, docs, now, toggleVars, addVars, suggVars, sessionVars,
                   thunkVars, viewVars, listVars, queryVars, viewedId, subs, comments>>

\* the i-th listener held calls back with the snapshot of its query:
\* setComments, which changes nothing once the page is unmounted
SnapshotDelivered(i) ==
    /\ i \in 1..Len(subs)
    /\ comments' = IF viewedId # NoTask THEN toComments(subs[i], commentDocs[subs[i]])
                   ELSE comments
    /\ UNCHANGED <<containerVars, docs, now, toggleVars, addVars, suggVars, sessionVars,
                   thunkVars, viewVars, listVars, queryVars, viewedId, subs, commentDocs>>

\* the comment-counts effect of TaskList on [tasks], from getTaskCommentCounts
\* to setCommentCounts, each count succeeding or failing; it runs at the mount
\* and after every change of tasks
CommentCountsEffect(outcomes) ==
    /\ route = "list"
    /\ Len(tasks) > 0
    /\ commentCounts' = getTaskCommentCounts(commentDocs, {tasks[i].id : i \in 1..Len(tasks)},
                                             outcomes)
    /\ UNCHANGED <<containerVars, docs, now, toggleVars, addVars, suggVars, sessionVars,
                   thunkVars, viewVars, filters, pagination, resetPending, queryVars,
                   commentVars>>

\* ------------------------------------------------ TaskList's derived view
\* the values of the status and type selects the model uses
statusOptions == {"all", "pending", "completed"}
typeOptions == {"all", "bug"}

\* itemsPerPageOptions, each as the digits of the option's value string
itemsPerPageOptions == { <<5>>, <<1, 0>>, <<2, 0>>, <<5, 0>>, <<1, 0, 0>> }

\* parseInt of a string of decimal digits
RECURSIVE parseInt(_)
parseInt(digits) ==
    IF digits = <<>> THEN 0
    ELSE 10 * parseInt(SubSeq(digits, 1, Len(digits) - 1)) + digits[Len(digits)]

\* useMemo, the filters: by status, then by type, each unless it is 'all';
\* here with a task passing when either filter lets it pass
filterTasks_Either(ts, f) ==
    LET either(task) == \/ f.status # "all" /\ task.status = f.status
                        \/ f.type # "all" /\ task.type = f.type
                        \/ f.status = "all" /\ f.type = "all"
    IN SelectSeq(ts, either)

\* useMemo, the filters: by status, then by type, each unless it is 'all'
\* (SelectSeq is Array.prototype.filter)
filterTasks(ts, f) ==
    LET byStatus(task) == task.status = f.status
        byType(task) == task.type = f.type
        filtered1 == IF f.status # "all" THEN SelectSeq(ts, byStatus) ELSE ts
    IN IF f.type # "all" THEN SelectSeq(filtered1, byType) ELSE filtered1

\* Math.ceil(n / d) for n >= 0 and d >= 1
ceil(n, d) == IF n % d = 0 THEN n \div d ELSE (n \div d) + 1

\* Array.prototype.slice(start, end) for 0 <= start <= end
slice(seq, start, end) ==
    LET to == IF end < Len(seq) THEN end ELSE Len(seq)
    IN IF start >= to THEN <<>> ELSE SubSeq(seq, start + 1, to)

\* useMemo: { displayedTasks, totalTasks, filteredTasksCount, totalPages }
derivedView(ts, f, p) ==
    LET filtered == filterTasks(ts, f)
        startIndex == (p.currentPage - 1) * p.itemsPerPage
    IN [displayedTasks |-> slice(filtered, startIndex, startIndex + p.itemsPerPage),
        totalTasks |-> Len(ts),
        filteredTasksCount |-> Len(filtered),
        totalPages |-> ceil(Len(filtered), p.itemsPerPage)]

\* the reset-page effect on [filters] leaving the page where it is
resetPage_Keeps(p) == p

\* the reset-page effect on [filters]: setPagination(prev => ({ ...prev, currentPage: 1 }))
resetPage(p) == [p EXCEPT !.currentPage = 1]

\* handleItemsPerPageChange keeping the page
setItemsPerPage_KeepsPage(p, itemsPerPage) ==
    [p EXCEPT !.itemsPerPage = parseInt(itemsPerPage)]

\* handleItemsPerPageChange: the new size, and currentPage: 1
setItemsPerPage(p, itemsPerPage) ==
    [p EXCEPT !.itemsPerPage = parseInt(itemsPerPage), !.currentPage = 1]

\* handleFilterChange(filterType, value): the select's onChange, fired for a
\* value other than the one shown; the new filters are rendered and the
\* reset-page effect is due
FilterChange(filterType, value) ==
    /\ route = "list"
    /\ ~resetPending
    /\ value # filters[filterType]
    /\ filters' = [filters EXCEPT ![filterType] = value]
    /\ resetPending' = TRUE
    /\ UNCHANGED <<containerVars, docs, now, toggleVars, addVars, suggVars, sessionVars,
                   thunkVars, viewVars, pagination, commentCounts, queryVars, commentVars>>

\* the reset-page effect runs after the render with the new filters, before
\* any later event is handled
ResetPageEffect ==
    /\ resetPending
    /\ pagination' = resetPage(pagination)
    /\ resetPending' = FALSE
    /\ UNCHANGED <<containerVars, docs, now, toggleVars, addVars, suggVars, sessionVars,
                   thunkVars, viewVars, filters, commentCounts, queryVars, commentVars>>

\* handlePageChange(page): the previous/next buttons, the page buttons and the
\* go-to input all pass a page of 1..totalPages, other than the current one
PageChange(page) ==
    /\ route = "list"
    /\ ~resetPending
    /\ page \in 1..derivedView(tasks, filters, pagination).totalPages
    /\ page # pagination.currentPage
    /\ pagination' = [pagination EXCEPT !.currentPage = page]
    /\ UNCHANGED <<containerVars, docs, now, toggleVars, addVars, suggVars, sessionVars,
                   thunkVars, viewVars, filters, resetPending, commentCounts,
                   queryVars, commentVars>>

\* handleItemsPerPageChange(itemsPerPage): the select's onChange with the value
\* string of another option
ItemsPerPageChange(itemsPerPage) ==
    /\ route = "list"
    /\ ~resetPending
    /\ parseInt(itemsPerPage) # pagination.itemsPerPage
    /\ pagination' = setItemsPerPage(pagination, itemsPerPage)
    /\ UNCHANGED <<containerVars, docs, now, toggleVars, addVars, suggVars, sessionVars,
                   thunkVars, viewVars, filters, resetPending, commentCounts,
                   queryVars, commentVars>>

\* ------------------------------------------------------- the list's system
\* the list view after a fetch: every task of the user, in any status, as the
\* add-task form created it (no completedAt) or as a toggle completed it
InitTaskRecords ==
    [TaskIds -> [status : Statuses, completedAt : {NoCompletedAt}]
                \cup {[status |-> "completed", completedAt |-> 1]}]

\* the list's handlers at rest
ToggleAtRest ==
    /\ updatingTasks = {}
    /\ toggles = [i \in TaskIds |-> IdleToggle]

\* the add-task page freshly mounted, no create in flight
AddTaskAtRest ==
    /\ formData = EmptyForm
    /\ submitLoading = FALSE
    /\ lastSubmitTime = 0
    /\ submittedTaskHash = NoHash
    /\ alert = NoAlert
    /\ call = IdleCall

\* no suggestion request received yet
SuggestAtRest ==
    /\ reqs = [r \in ReqSlots |-> IdleReq]
    /\ started = 0

\* the session of a signed-in user, after setUser
SignedIn(uid) ==
    [user |-> uid, loading |-> FALSE, isAuthenticated |-> TRUE, error |-> NoError]

\* no fetchTasks or editTask thunk dispatched outside the handlers modelled
ThunksAtRest ==
    /\ fetch = IdleFetch
    /\ edit = IdleEdit
    /\ dispatched = 0

\* the view-task page not mounted
ViewAtRest ==
    /\ editableTask = EmptyEditable
    /\ saving = FALSE
    /\ timer = NoTimer
    /\ userChanged = FALSE
    /\ lastChangeAt = 0

\* the list with its filters and pagination as mounted, no counts loaded
ListAtRest ==
    /\ filters = [status |-> "all", type |-> "all"]
    /\ pagination = [currentPage |-> 1, itemsPerPage |-> 20]
    /\ resetPending = FALSE
    /\ commentCounts = <<>>

\* no getUserTasks call made
QueryAtRest == query = IdleQuery

\* the view-task page of task id just mounted: its comments effect has
\* subscribed, no snapshot has arrived
ViewMounted(id) ==
    /\ viewedId = id
    /\ subs = <<id>>
    /\ comments = <<>>
    /\ commentDocs = [t \in DocIds |-> <<>>]

\* no view-task page mounted, no comment written
CommentsAtRest ==
    /\ viewedId = NoTask
    /\ subs = <<>>
    /\ comments = <<>>
    /\ commentDocs = [id \in DocIds |-> <<>>]

Init ==
    /\ \E f \in InitTaskRecords :
          /\ tasks = [i \in TaskIds |-> Merge([id |-> i], f[i])]
          /\ docs = [i \in TaskIds |-> Merge(f[i], [updatedAt |-> "serverTimestamp"])]
    /\ loading = FALSE
    /\ error = NoError
    /\ lastUpdated = 1
    /\ now = 1
    /\ ToggleAtRest
    /\ route = "list"
    /\ AddTaskAtRest
    /\ SuggestAtRest
    /\ userStats = NoStats
    /\ auth = SignedIn("U1")
    /\ ThunksAtRest
    /\ ViewAtRest
    /\ ListAtRest
    /\ QueryAtRest
    /\ CommentsAtRest

Next ==
    \/ \E taskId \in TaskIds : ToggleClick(taskId)
    \/ \E taskId \in TaskIds : EditFulfilled(taskId)
    \/ \E taskId \in TaskIds : EditRejected(taskId)
    \/ \E taskId \in TaskIds : ToggleResume(taskId)
    \/ Tick

Spec == Init /\ [][Next]_vars

\* ------------------------------------------------- the add-task page's system
\* a document the user created earlier, as the store holds it and as the
\* container holds it after the fetch
EarlierDoc ==
    [title |-> "Fix login", description |-> "", status |-> "pending", type |-> "bug",
     dueDate |-> "", userId |-> "U1", createdAt |-> "serverTimestamp",
     updatedAt |-> "serverTimestamp", clientId |-> <<"U1", "Date.now()", "Math.random()">>]

InitCreate ==
    /\ \/ /\ docs = <<>>
          /\ tasks = <<>>
       \/ /\ docs = (1 :> EarlierDoc)
          /\ tasks = <<Merge([id |-> 1], EarlierDoc)>>
    /\ loading = FALSE
    /\ error = NoError
    /\ lastUpdated = 1
    /\ now = SubmitDebounce
    /\ ToggleAtRest
    /\ route = "add-task"
    /\ AddTaskAtRest
    /\ SuggestAtRest
    /\ userStats = NoStats
    /\ auth = SignedIn("U1")
    /\ ThunksAtRest
    /\ ViewAtRest
    /\ ListAtRest
    /\ QueryAtRest
    /\ CommentsAtRest

NextCreate ==
    \/ InputChange
    \/ \E userId \in UserIds : Submit(userId)
    \/ AddDocOk
    \/ AddDocFail
    \/ BackoffElapsed
    \/ CreateSettle
    \/ SubmitResume
    \/ OpenAddTask
    \/ TickSubmit

SpecCreate == InitCreate /\ [][NextCreate]_vars

\* ------------------------------------- the add-task page with its status buttons
\* the add-task page with a title typed, before any status button is pressed
InitStatus ==
    /\ \/ /\ docs = <<>>
          /\ tasks = <<>>
       \/ /\ docs = (1 :> EarlierDoc)
          /\ tasks = <<Merge([id |-> 1], EarlierDoc)>>
    /\ loading = FALSE
    /\ error = NoError
    /\ lastUpdated = 1
    /\ now = SubmitDebounce
    /\ ToggleAtRest
    /\ route = "add-task"
    /\ formData = [EmptyForm EXCEPT !.title = "Write report"]
    /\ submitLoading = FALSE
    /\ lastSubmitTime = 0
    /\ submittedTaskHash = NoHash
    /\ alert = NoAlert
    /\ call = IdleCall
    /\ SuggestAtRest
    /\ userStats = NoStats
    /\ auth = SignedIn("U1")
    /\ ThunksAtRest
    /\ ViewAtRest
    /\ ListAtRest
    /\ QueryAtRest
    /\ CommentsAtRest

NextStatus ==
    \/ \E v \in Statuses : SelectStatus(v)
    \/ Submit("U1")
    \/ AddDocOk
    \/ AddDocFail
    \/ BackoffElapsed
    \/ CreateSettle
    \/ SubmitResume
    \/ TickSubmit

SpecStatus == InitStatus /\ [][NextStatus]_vars

\* ------------------------------------------------------ the container's system
\* the app freshly loaded: both slices in their initial state, the store
\* holding what the accounts created earlier
InitContainer ==
    /\ tasks = initialState.tasks
    /\ loading = initialState.loading
    /\ error = initialState.error
    /\ lastUpdated = initialState.lastUpdated
    /\ auth = initialAuth
    /\ \/ docs = <<>>
       \/ docs = (1 :> EarlierDoc)
       \/ docs = (1 :> [EarlierDoc EXCEPT !.userId = "U2"])
    /\ now = 1
    /\ ToggleAtRest
    /\ route = "list"
    /\ AddTaskAtRest
    /\ SuggestAtRest
    /\ userStats = NoStats
    /\ ThunksAtRest
    /\ ViewAtRest
    /\ ListAtRest
    /\ QueryAtRest
    /\ CommentsAtRest

NextContainer ==
    \/ \E u \in SessionUsers \cup {NoUser} : AuthStateChanged(u)
    \/ FetchDispatch
    \/ FetchFulfilled
    \/ FetchRejected
    \/ CreateDispatch(NewTaskForm)
    \/ AddDocOk
    \/ AddDocFail
    \/ BackoffElapsed
    \/ CreateSettle
    \/ \E taskId \in DocIds, taskData \in EditPayloads(now) : EditDispatch(taskId, taskData)
    \/ EditTaskFulfilled
    \/ EditTaskRejected
    \/ \E taskId \in DocIds, updates \in PatchPayloads : PatchLocal(taskId, updates)
    \/ Tick

SpecContainer == InitContainer /\ [][NextContainer]_vars

\* ------------------------------------------------------ the view-task page's system
\* the page opened on a task the container holds after a fetch: editableTask
\* set from the task, the first timeout of the debounced-save effect set
InitView ==
    /\ docs = (ViewTaskId :> EarlierDoc)
    /\ tasks = getUserTasks(docs, "U1")
    /\ loading = FALSE
    /\ error = NoError
    /\ lastUpdated = 1
    /\ now = 1
    /\ ToggleAtRest
    /\ route = "view-task"
    /\ AddTaskAtRest
    /\ SuggestAtRest
    /\ userStats = NoStats
    /\ auth = SignedIn("U1")
    /\ ThunksAtRest
    /\ editableTask = editableFrom(ViewTask)
    /\ saving = FALSE
    /\ timer = now + SaveDebounce
    /\ userChanged = FALSE
    /\ lastChangeAt = 0
    /\ ListAtRest
    /\ QueryAtRest
    /\ ViewMounted(ViewTaskId)

NextView ==
    \/ \E v \in ViewTitles : TypeTitle(v)
    \/ TimerFires
    \/ \E newStatus \in Statuses : StatusChange(newStatus)
    \/ \E ok \in BOOLEAN : ViewEditSettled(ok)
    \/ SaveResume
    \/ TickView

SpecView == InitView /\ [][NextView]_vars

\* ------------------------------------------------------ TaskList's view system
\* the list shows up to this many tasks
MaxListLen == 6

\* the tasks a fetch has loaded differ in status and type
ListKinds ==
    { [title |-> "Fix login", status |-> "pending", type |-> "bug"],
      [title |-> "Write report", status |-> "pending", type |-> "task"],
      [title |-> "Fix login", status |-> "completed", type |-> "bug"] }

\* TaskList mounted on a collection a fetch has loaded, filters and pagination
\* as useState gives them
InitList ==
    /\ \E n \in 0..MaxListLen : \E kinds \in [1..n -> ListKinds] :
          tasks = [i \in 1..n |-> Merge([id |-> i], kinds[i])]
    /\ docs = <<>>
    /\ loading = FALSE
    /\ error = NoError
    /\ lastUpdated = 1
    /\ now = 1
    /\ ToggleAtRest
    /\ route = "list"
    /\ AddTaskAtRest
    /\ SuggestAtRest
    /\ userStats = NoStats
    /\ auth = SignedIn("U1")
    /\ ThunksAtRest
    /\ ViewAtRest
    /\ ListAtRest
    /\ QueryAtRest
    /\ CommentsAtRest

NextList ==
    \/ \E value \in statusOptions : FilterChange("status", value)
    \/ \E value \in typeOptions : FilterChange("type", value)
    \/ ResetPageEffect
    \/ \E page \in 1..MaxListLen : PageChange(page)
    \/ \E itemsPerPage \in itemsPerPageOptions : ItemsPerPageChange(itemsPerPage)

SpecList == InitList /\ [][NextList]_vars

\* ------------------------------------- the view-task page opened by its URL
\* the page opened directly: the user is signed in, the container is empty,
\* the mount effects have run (fetchTasks dispatched, the timeout set, the
\* comments listener registered); the store holds any tasks of two users
InitViewFetch ==
    /\ \E n \in 0..MaxDocId :
          docs \in [1..n -> {EarlierDoc, [EarlierDoc EXCEPT !.userId = "U2"]}]
    /\ tasks = <<>>
    /\ loading = TRUE
    /\ error = NoError
    /\ lastUpdated = NoLastUpdated
    /\ now = 1
    /\ ToggleAtRest
    /\ route = "view-task"
    /\ AddTaskAtRest
    /\ SuggestAtRest
    /\ userStats = NoStats
    /\ auth = SignedIn("U1")
    /\ fetch = [pc |-> "pending", userId |-> "U1"]
    /\ edit = IdleEdit
    /\ dispatched = 0
    /\ editableTask = EmptyEditable
    /\ saving = FALSE
    /\ timer = now + SaveDebounce
    /\ userChanged = FALSE
    /\ lastChangeAt = 0
    /\ ListAtRest
    /\ QueryAtRest
    /\ ViewMounted(ViewTaskId)

NextViewFetch ==
    \/ FetchFulfilled
    \/ FetchRejected
    \/ ViewFetchEffect
    \/ TimerFires
    \/ TickView

SpecViewFetch == InitViewFetch /\ [][NextViewFetch]_vars

\* --------------------------------------- the list and the view-task page
\* the list mounted on the user's loaded tasks; the user toggles the status
\* of a task, opens the view-task page of that task and changes its status
\* there
InitNav ==
    /\ docs = [i \in TaskIds |-> EarlierDoc]
    /\ tasks = getUserTasks(docs, "U1")
    /\ loading = FALSE
    /\ error = NoError
    /\ lastUpdated = 1
    /\ now = 1
    /\ ToggleAtRest
    /\ route = "list"
    /\ AddTaskAtRest
    /\ SuggestAtRest
    /\ userStats = NoStats
    /\ auth = SignedIn("U1")
    /\ fetch = [pc |-> "fulfilled", userId |-> "U1"]
    /\ edit = IdleEdit
    /\ dispatched = 0
    /\ ViewAtRest
    /\ ListAtRest
    /\ QueryAtRest
    /\ CommentsAtRest

NextNav ==
    \/ route = "list" /\ ToggleClick(ViewTaskId)
    \/ EditFulfilled(ViewTaskId)
    \/ EditRejected(ViewTaskId)
    \/ ToggleResume(ViewTaskId)
    \/ OpenViewTask(ViewTaskId)
    \/ \E newStatus \in Statuses : route = "view-task" /\ StatusChange(newStatus)
    \/ \E ok \in BOOLEAN : ViewEditSettled(ok)
    \/ SaveResume

SpecNav == InitNav /\ [][NextNav]_vars

\* ---------------------------------------------- getUserTasks' system
\* the documents addTask has written: each of a user, with the Timestamps the
\* server set
StoredTasks ==
    [title : {"Fix login"}, status : {"pending"}, type : {"bug"}, userId : QueryUsers,
     createdAt : 1..MaxCreatedAt, updatedAt : {MaxCreatedAt}]

\* any store of up to MaxDocId tasks; no call made
InitQuery ==
    /\ \E n \in 0..MaxDocId : docs \in [1..n -> StoredTasks]
    /\ tasks = <<>>
    /\ loading = FALSE
    /\ error = NoError
    /\ lastUpdated = NoLastUpdated
    /\ now = 1
    /\ ToggleAtRest
    /\ route = "list"
    /\ AddTaskAtRest
    /\ SuggestAtRest
    /\ userStats = NoStats
    /\ auth = SignedIn("U1")
    /\ ThunksAtRest
    /\ ViewAtRest
    /\ ListAtRest
    /\ QueryAtRest
    /\ CommentsAtRest

NextQuery ==
    \/ \E userId \in QueryUsers : QueryStart(userId)
    \/ \E outcome \in {"ok", IndexMissing, Unavailable} : OrderedSettles(outcome)
    \/ \E outcome \in {"ok", Unavailable} : FallbackSettles(outcome)

SpecQuery == InitQuery /\ [][NextQuery]_vars

\* ---------------------------------------------- the comments' system
\* the user's tasks, stored and loaded by the list's fetch
CommentedDocs == [id \in DocIds |-> EarlierDoc]

\* TaskList mounted, its fetch fulfilled, no comment written yet
InitComments ==
    /\ docs = CommentedDocs
    /\ tasks = getUserTasks(docs, "U1")
    /\ loading = FALSE
    /\ error = NoError
    /\ lastUpdated = 1
    /\ now = 1
    /\ ToggleAtRest
    /\ route = "list"
    /\ AddTaskAtRest
    /\ SuggestAtRest
    /\ userStats = NoStats
    /\ auth = SignedIn("U1")
    /\ fetch = [pc |-> "fulfilled", userId |-> "U1"]
    /\ edit = IdleEdit
    /\ dispatched = 0
    /\ ViewAtRest
    /\ ListAtRest
    /\ QueryAtRest
    /\ CommentsAtRest

NextComments ==
    \/ \E taskId \in DocIds : OpenViewTask(taskId)
    \/ \E taskId \in DocIds : ChangeViewedTask(taskId)
    \/ BackToList
    \/ FetchFulfilled
    \/ FetchRejected
    \/ \E text \in CommentTexts : AddComment(text)
    \/ \E i \in 1..MaxDocId : SnapshotDelivered(i)
    \/ \E outcomes \in [DocIds -> {"ok", "throws"}] : CommentCountsEffect(outcomes)

SpecComments == InitComments /\ [][NextComments]_vars

\* ---------------------------------------------- the suggestion endpoint's system
\* the counter as earlier requests of the user left it: no document yet, or
\* a document with a count up to the limit
InitSuggest ==
    /\ tasks = <<>>
    /\ docs = <<>>
    /\ loading = FALSE
    /\ error = NoError
    /\ lastUpdated = 0
    /\ now = 1
    /\ ToggleAtRest
    /\ route = "list"
    /\ AddTaskAtRest
    /\ auth = SignedIn("U1")
    /\ ThunksAtRest
    /\ ViewAtRest
    /\ ListAtRest
    /\ QueryAtRest
    /\ CommentsAtRest
    /\ SuggestAtRest
    /\ \/ userStats = NoStats
       \/ \E n \in 1..MAX_FREE_SUGGESTIONS :
             userStats = [exists |-> TRUE, suggestionCount |-> n]

NextSuggest ==
    \/ \E r \in ReqSlots, userId \in UserIds, taskName \in TaskNames :
          ReceiveRequest(r, userId, taskName)
    \/ \E r \in ReqSlots, ok \in BOOLEAN : ReadStats(r, ok)
    \/ \E r \in ReqSlots, outcome \in GenerationOutcomes : Generated(r, outcome)
    \/ \E r \in ReqSlots, ok \in BOOLEAN : AnalyticsStored(r, ok)
    \/ \E r \in ReqSlots, ok \in BOOLEAN : StatsUpdated(r, ok)

SpecSuggest == InitSuggest /\ [][NextSuggest]_vars

\* =================================================================== claims

\* the status and completedAt of the container's task with this id
Shown(taskId) ==
    [status |-> TaskOf(taskId).status, completedAt |-> TaskOf(taskId).completedAt]

\* C1: a toggle from pending whose optimistic patch was applied and whose
\* edit was rejected leaves the task's status pending (and its completedAt as
\* it was) once the handler has finished.
C1_RollbackLeavesPending ==
    \A taskId \in TaskIds :
        (toggles[taskId].pc = "done-rejected" /\ toggles[taskId].cur = "pending")
        => /\ TaskOf(taskId).status = "pending"
           /\ TaskOf(taskId).completedAt = toggles[taskId].pre.completedAt

C1_Witness ==
    \E taskId \in TaskIds :
        /\ toggles[taskId].pc = "done-rejected"
        /\ toggles[taskId].cur = "pending"
        /\ toggles[taskId].updates.status = "in-progress"

\* C2: a toggle from in-progress into completed that was rejected leaves both
\* status and completedAt of the task at their values from before the toggle.
C2_RollbackRestoresEveryField ==
    \A taskId \in TaskIds :
        (toggles[taskId].pc = "done-rejected" /\ toggles[taskId].cur = "in-progress")
        => Shown(taskId) = toggles[taskId].pre

\* C3: the toggle takes pending to in-progress, in-progress to completed with
\* completedAt set to the current time in the same update (the optimistic
\* patch, the edit's payload and the fulfilled merge), a fulfilled edit keeps
\* what the toggle set, and a completed task whose toggle is at rest is
\* changed by no step: no patch, no edit, no write to its document.
C3_Step(taskId) ==
    LET t == toggles[taskId]
        begun == t.pc # "awaiting" /\ toggles'[taskId].pc = "awaiting"
        fulfilled == t.pc = "awaiting" /\ toggles'[taskId].pc = "fulfilled"
        finished == t.pc = "fulfilled" /\ toggles'[taskId].pc = "done-fulfilled"
    IN  /\ (begun /\ TaskOf(taskId).status = "pending")
            => /\ Shown(taskId)' = [status |-> "in-progress",
                                    completedAt |-> TaskOf(taskId).completedAt]
               /\ toggles'[taskId].updates = [status |-> "in-progress"]
        /\ (begun /\ TaskOf(taskId).status = "in-progress")
            => /\ Shown(taskId)' = [status |-> "completed", completedAt |-> now]
               /\ toggles'[taskId].updates = [status |-> "completed", completedAt |-> now]
               /\ now # NoCompletedAt
        /\ fulfilled
            => /\ TaskOf(taskId)'.status = t.updates.status
               /\ docs'[taskId].status = t.updates.status
               /\ t.updates.status = "completed"
                    => /\ TaskOf(taskId)'.completedAt = t.updates.completedAt
                       /\ docs'[taskId].completedAt = t.updates.completedAt
        /\ finished => TaskOf(taskId)' = TaskOf(taskId)
        /\ (TaskOf(taskId).status = "completed" /\ taskId \notin updatingTasks)
            => /\ TaskOf(taskId)' = TaskOf(taskId)
               /\ toggles'[taskId] = toggles[taskId]
               /\ docs'[taskId] = docs[taskId]
               /\ taskId \notin updatingTasks'

C3_StatusCycle == [][\A taskId \in TaskIds : C3_Step(taskId)]_vars

C3_Witness ==
    \E taskId \in TaskIds :
        /\ toggles[taskId].pc = "done-fulfilled"
        /\ toggles[taskId].cur = "in-progress"
        /\ toggles[taskId].pre.completedAt = NoCompletedAt
        /\ TaskOf(taskId).status = "completed"
        /\ TaskOf(taskId).completedAt # NoCompletedAt

\* the call has ended with an error
CallFailed == call.pc \in {"thrown", "rejected", "done-rejected"}
\* the call has ended with a task id
CallReturned == call.pc \in {"returned", "fulfilled", "done-fulfilled"}
LastAttempt == call.log[Len(call.log)]

\* C4: a call of addTask issues at most 3 addDoc attempts; every attempt
\* before the last failed with a collision; a failure that is no collision
\* ends the call with that very error; three collisions end it with the
\* conflict error; a retry is pending or issued only after a collision.
C4_BoundedCollisionRetry ==
    /\ Len(call.log) <= 3
    /\ \A k \in 1..(Len(call.log) - 1) : call.log[k] \in StoreCollisionErrors
    /\ (Len(call.log) >= 1 /\ LastAttempt \in StoreOtherErrors)
          => (CallFailed /\ call.err = LastAttempt)
    /\ (Len(call.log) = 3 /\ LastAttempt \in StoreCollisionErrors)
          => (CallFailed /\ call.err = ErrIdConflict)
    /\ (Len(call.log) >= 1 /\ call.pc \in {"backoff", "writing"})
          => (LastAttempt \in StoreCollisionErrors /\ Len(call.log) < 3)
    /\ call.pc = "backoff" => call.attempt = Len(call.log)

C4_Witness ==
    /\ CallFailed
    /\ Len(call.log) = 3
    /\ \A k \in 1..3 : call.log[k] \in StoreCollisionErrors

\* C5: a call that returns, whatever collisions came first, returns the id of
\* the one document it created (exactly one new document, holding the task
\* data and the owner), after no more than 3 attempts; the fulfilled payload
\* carries that id.
C5_RetriedCreateSameResult ==
    CallReturned =>
        /\ Len(call.log) <= 3
        /\ LastAttempt = AttemptOk
        /\ DOMAIN docs \ call.known = {call.result}
        /\ docs[call.result].userId = call.userId
        /\ docs[call.result].title = call.taskData.title
        /\ docs[call.result].type = call.taskData.type
        /\ call.pc \in {"fulfilled", "done-fulfilled"}
              => /\ tasks[1].id = call.result
                 /\ tasks[1].userId = call.userId
                 /\ tasks[1].title = call.taskData.title

C5_Witness ==
    /\ call.pc = "fulfilled"
    /\ Len(call.log) = 3
    /\ call.log[1] \in StoreCollisionErrors
    /\ call.log[2] \in StoreCollisionErrors

\* C6: when create has used up its 3 attempts on collisions, the message shown
\* to the user differs from the one shown for a generic create failure.
C6_ExhaustedRetryMessageDistinct ==
    (call.pc = "done-rejected" /\ call.err = ErrIdConflict) => alert # AlertGeneric

\* C7: create with an empty userId fails with the validation error, having
\* issued no addDoc attempt and written no document, and is not retried.
C7_EmptyUserIdFailsFast ==
    (call.pc # "idle" /\ call.userId = "")
    => /\ CallFailed
       /\ call.err = ErrUserIdRequired
       /\ call.log = <<>>
       /\ call.attempt = 0
       /\ DOMAIN docs = call.known

C7_Witness ==
    /\ call.pc = "rejected"
    /\ call.userId = ""
    /\ error = <<"User", "ID", "is", "required">>

\* C8: the request that reads a stored count of 19 and completes stores 20 and
\* answers 200 with remainingCount 0, and is not refused for quota; the
\* request that reads 20 answers 429 and leaves the stored count unchanged.
C8_Step(r) ==
    LET reading == reqs[r].pc = "getDoc" /\ reqs'[r].pc # "getDoc"
        answering == reqs[r].pc = "updating" /\ reqs'[r].status = 200
    IN  /\ (reading /\ userStats.exists /\ userStats.suggestionCount = 19
                    /\ reqs'[r].status # 500)
            => (reqs'[r].pc = "generating" /\ reqs'[r].suggestionCount = 19)
        /\ (answering /\ reqs[r].suggestionCount = 19)
            => /\ userStats'.suggestionCount = 20
               /\ reqs'[r].body.remainingCount = 0
               /\ reqs'[r].pc = "done"
        /\ (reading /\ userStats.exists /\ userStats.suggestionCount = 20
                    /\ reqs'[r].status # 500)
            => /\ reqs'[r].pc = "done"
               /\ reqs'[r].status = 429
               /\ userStats' = userStats

C8_QuotaBoundary == [][\A r \in ReqSlots : C8_Step(r)]_vars

C8_Witness ==
    \E r1, r2 \in ReqSlots :
        /\ reqs[r1].pc = "done" /\ reqs[r1].status = 200
        /\ reqs[r1].suggestionCount = 19 /\ reqs[r1].body.remainingCount = 0
        /\ reqs[r2].pc = "done" /\ reqs[r2].status = 429
        /\ userStats.suggestionCount = 20

\* C9: a request that reads a count of 20 or more answers 429 with that count
\* and limit 20, and in that request the provider is not called, no analytics
\* record is written and userStats is not modified.
C9_Step(r) ==
    (reqs[r].pc = "getDoc" /\ reqs'[r].pc # "getDoc"
        /\ readCount(userStats) >= 20 /\ reqs'[r].status # 500)
    => /\ reqs'[r].pc = "done"
       /\ reqs'[r].status = 429
       /\ reqs'[r].body = [error |-> "LIMIT_REACHED",
                           count |-> userStats.suggestionCount, limit |-> 20]
       /\ ~reqs'[r].calledProvider
       /\ ~reqs'[r].wroteAnalytics
       /\ ~reqs'[r].wroteStats
       /\ userStats' = userStats

C9_LimitReachedNoSideEffect == [][\A r \in ReqSlots : C9_Step(r)]_vars

C9_Witness ==
    \E r \in ReqSlots :
        /\ reqs[r].pc = "done" /\ reqs[r].status = 429
        /\ reqs[r].body.count = 20
        /\ ~reqs[r].calledProvider /\ ~reqs[r].wroteAnalytics /\ ~reqs[r].wroteStats

\* C10: the stored suggestionCount never decreases (an absent record counts 0).
C10_CountMonotonic ==
    [][userStats'.suggestionCount >= userStats.suggestionCount]_vars

\* C11: a request answered 200 has raised the stored suggestionCount by exactly
\* one over the value stored just before its write (a first record is created
\* with count 1) and returns remainingCount = 20 - the count stored after it;
\* a request that fails at generation or at the analytics write leaves the
\* stored record unchanged.
C11_Step(r) ==
    LET answering == reqs[r].pc = "updating" /\ reqs'[r].status = 200
        failing == reqs[r].pc \in {"generating", "storing"} /\ reqs'[r].pc = "done"
    IN  /\ answering
            => /\ userStats'.exists
               /\ userStats'.suggestionCount = readCount(userStats) + 1
               /\ reqs'[r].body.remainingCount = 20 - userStats'.suggestionCount
        /\ failing => userStats' = userStats

C11_SuccessIncrementsByOne == [][\A r \in ReqSlots : C11_Step(r)]_vars

\* the elements of a sequence
Range(seq) == {seq[i] : i \in 1..Len(seq)}

\* C12: fetchTasks.fulfilled makes tasks the fetched result (every task held
\* afterwards is one of the result, none of the earlier collection survives
\* beside it), sets lastUpdated to the current time and loading to false.
C12_Step ==
    (fetch.pc = "pending" /\ fetch'.pc = "fulfilled")
    => LET result == getUserTasks(docs, fetch.userId)
       IN /\ tasks' = result
          /\ \A t \in Range(tasks) : t \in Range(tasks') => t \in Range(result)
          /\ Len(tasks') = Len(result)
          /\ lastUpdated' = now
          /\ lastUpdated' # NoLastUpdated
          /\ loading' = FALSE

C12_FetchReplacesWholesale == [][C12_Step]_vars

C12_Witness ==
    /\ fetch.pc = "fulfilled"
    /\ call.pc = "fulfilled"
    /\ \E id \in DOMAIN docs : docs[id].userId = "U2"
    /\ tasks = getUserTasks(docs, "U1")
    /\ Len(tasks) = 1
    /\ lastUpdated = now
    /\ ~loading

\* C13: fetchTasks.rejected and createTask.rejected leave tasks and
\* lastUpdated as they were, set loading to false and error to the rejection
\* message.
C13_Step ==
    /\ (fetch.pc = "pending" /\ fetch'.pc = "rejected")
        => /\ tasks' = tasks
           /\ lastUpdated' = lastUpdated
           /\ loading' = FALSE
           /\ error' = ErrFetch
    /\ (call.pc = "thrown" /\ call'.pc = "rejected")
        => /\ tasks' = tasks
           /\ lastUpdated' = lastUpdated
           /\ loading' = FALSE
           /\ error' = call.err.message
           /\ error' # NoError

C13_RejectionKeepsTasks == [][C13_Step]_vars

C13_Witness ==
    /\ fetch.pc = "rejected"
    /\ tasks # <<>>
    /\ lastUpdated # NoLastUpdated
    /\ error = ErrFetch
    /\ ~loading

\* C14: createTask.fulfilled puts the new task at index 0, keeps the tasks held
\* before in their order directly after it (the length grows by one) and sets
\* loading to false.
C14_Step ==
    (call.pc = "returned" /\ call'.pc = "fulfilled")
    => /\ Len(tasks') = Len(tasks) + 1
       /\ tasks'[1].id = call.result
       /\ tasks'[1].title = call.taskData.title
       /\ tasks'[1].userId = call.userId
       /\ \A i \in 1..Len(tasks) : tasks'[i + 1] = tasks[i]
       /\ loading' = FALSE

C14_CreatePrepends == [][C14_Step]_vars

C14_Witness ==
    /\ call.pc = "fulfilled"
    /\ fetch.pc = "fulfilled"
    /\ Len(tasks) = 2
    /\ tasks[1].id = call.result
    /\ tasks[2].id # call.result
    /\ ~loading

\* C15: no phase of editTask changes loading or lastUpdated; editTask.pending
\* changes only error, to none; editTask.rejected changes only error, to the
\* message.
C15_Step ==
    /\ (edit' # edit /\ edit'.pc = "pending")
        => /\ loading' = loading
           /\ lastUpdated' = lastUpdated
           /\ tasks' = tasks
           /\ error' = NoError
    /\ (edit.pc = "pending" /\ edit'.pc = "fulfilled")
        => /\ loading' = loading
           /\ lastUpdated' = lastUpdated
    /\ (edit.pc = "pending" /\ edit'.pc = "rejected")
        => /\ loading' = loading
           /\ lastUpdated' = lastUpdated
           /\ tasks' = tasks
           /\ error' = ErrEdit

C15_EditLeavesLoading == [][C15_Step]_vars

C15_Witness ==
    /\ edit.pc = "rejected"
    /\ error = ErrEdit
    /\ lastUpdated # NoLastUpdated
    /\ ~loading
    /\ tasks # <<>>

\* res is ts with the fields merged into the first task with this id and
\* nothing else changed; ts itself when no task has the id
MergedInto(res, ts, taskId, fields) ==
    LET taskIndex == findIndex(ts, taskId) IN
    /\ Len(res) = Len(ts)
    /\ \A i \in 1..Len(ts) : i # taskIndex => res[i] = ts[i]
    /\ taskIndex # 0
        => /\ ts[taskIndex].id = taskId
           /\ DOMAIN res[taskIndex] = DOMAIN ts[taskIndex] \cup DOMAIN fields
           /\ \A k \in DOMAIN fields : res[taskIndex][k] = fields[k]
           /\ \A k \in DOMAIN ts[taskIndex] \ DOMAIN fields :
                 res[taskIndex][k] = ts[taskIndex][k]
    /\ (\A i \in 1..Len(ts) : ts[i].id # taskId) => res = ts

\* C16: in every reachable state, editTask.fulfilled and updateTaskLocal with
\* any task id and any partial data merge the fields into the task with that
\* id, keep its other fields, every other task, the order and the length, and
\* change nothing when no task has the id.
C16_ShallowMergeInPlace ==
    \A taskId \in DocIds, fields \in EditPayloads(now) \cup PatchPayloads :
        /\ MergedInto(updateTaskLocal(tasks, taskId, fields), tasks, taskId, fields)
        /\ MergedInto(editTaskFulfilled(tasks, editTaskPayload(taskId, fields)),
                      tasks, taskId, Merge([id |-> taskId], fields))

C16_Witness ==
    /\ edit.pc = "fulfilled"
    /\ edit.taskData = [title |-> "Renamed"]
    /\ \E i \in 1..Len(tasks) :
          /\ tasks[i].id = edit.taskId
          /\ tasks[i].title = "Renamed"
          /\ tasks[i].status = docs[edit.taskId].status
          /\ tasks[i].userId = "U1"

\* C17: the clear dispatched on sign-out leaves the container in its initial
\* state: tasks empty, loading false, error none, lastUpdated none.
C17_ClearResetsToInitial ==
    [][(auth.user # NoUser /\ auth'.user = NoUser) => Container' = initialState]_vars

\* C18: the handling of a notification that reports no signed-in user leaves
\* the session without user and not authenticated and, in the same step, the
\* container without tasks.
C18_Step ==
    (auth' # auth /\ auth'.user = NoUser)
    => /\ ~auth'.isAuthenticated
       /\ ~auth'.loading
       /\ tasks' = <<>>

C18_SignOutClearsTasks == [][C18_Step]_vars

C18_Witness ==
    /\ auth.user = NoUser
    /\ ~auth.isAuthenticated
    /\ ~auth.loading
    /\ tasks = <<>>
    /\ fetch.pc = "fulfilled"
    /\ call.pc = "idle"
    /\ getUserTasks(docs, fetch.userId) # <<>>

\* the task carries a completion date
HasCompletedAt(t) == "completedAt" \in DOMAIN t /\ t.completedAt # NoCompletedAt

\* C19: completedAt is present exactly on the tasks whose status was set to
\* completed at some time. Step by step: a task that enters the collection
\* has completedAt exactly when it enters as completed; a task whose status
\* becomes completed has completedAt afterwards; completedAt appears on a task
\* only in a step that leaves it completed; and completedAt, once present,
\* stays.
C19_Step ==
    /\ \A i \in 1..Len(tasks') :
          (\A j \in 1..Len(tasks) : tasks[j].id # tasks'[i].id)
          => (HasCompletedAt(tasks'[i]) <=> tasks'[i].status = "completed")
    /\ \A i \in 1..Len(tasks'), j \in 1..Len(tasks) :
          tasks[j].id = tasks'[i].id
          => /\ (tasks[j].status # "completed" /\ tasks'[i].status = "completed")
                   => HasCompletedAt(tasks'[i])
             /\ (~HasCompletedAt(tasks[j]) /\ HasCompletedAt(tasks'[i]))
                   => tasks'[i].status = "completed"
             /\ HasCompletedAt(tasks[j]) => HasCompletedAt(tasks'[i])

C19_CompletedAtIffCompletedOnce == [][C19_Step]_vars

\* C20: after an edit of the view-task page was rejected, the page dispatches
\* another edit only when the user has changed a field since, or changes one
\* in that very step.
C20_Step ==
    (edit.pc = "done-rejected" /\ edit'.pc = "pending")
    => (userChanged \/ editableTask' # editableTask)

C20_RejectedEditNotRetried == [][C20_Step]_vars

\* the tasks of ts a filter pair lets pass: both filters, each unless "all"
Matches(task, f) ==
    /\ f.status = "all" \/ task.status = f.status
    /\ f.type = "all" \/ task.type = f.type

\* the page sizes and page indexes the derived view is checked for
PageSizes == {1, 2} \cup {parseInt(o) : o \in itemsPerPageOptions}
PageIndexes == {1, 2, 3}

\* C27 (P5): for the collection and filter pair of every reachable state and
\* every page (index >= 1, size >= 1): filtered holds exactly the tasks that
\* pass both filters, in collection order; totalPages is the least number of
\* pages of that size that hold them all, 0 when there are none; the page's
\* items are filtered[(index-1)*size .. (index-1)*size+size), at most size.
C27_DerivedView ==
    LET filtered == filterTasks(tasks, filters)
        idx == {i \in 1..Len(tasks) : Matches(tasks[i], filters)}
        nth(k) == CHOOSE i \in idx : Cardinality({j \in idx : j <= i}) = k
    IN /\ Len(filtered) = Cardinality(idx)
       /\ \A k \in 1..Len(filtered) : filtered[k] = tasks[nth(k)]
       /\ \A size \in PageSizes, index \in PageIndexes :
            LET v == derivedView(tasks, filters, [currentPage |-> index, itemsPerPage |-> size])
                start == (index - 1) * size
                left == v.filteredTasksCount - start
            IN /\ v.filteredTasksCount = Cardinality(idx)
               /\ v.totalPages * size >= v.filteredTasksCount
               /\ (v.totalPages - 1) * size < v.filteredTasksCount
               /\ (idx = {}) => v.totalPages = 0
               /\ Len(v.displayedTasks)
                    = (IF left <= 0 THEN 0 ELSE IF left < size THEN left ELSE size)
               /\ \A k \in 1..Len(v.displayedTasks) :
                     v.displayedTasks[k] = tasks[nth(start + k)]
               /\ Len(v.displayedTasks) <= size

\* a second page is shown under a filter that rejects some of the tasks
C27_Witness ==
    /\ filters.status # "all"
    /\ filters.type # "all"
    /\ pagination.currentPage = 2
    /\ ~resetPending
    /\ Len(derivedView(tasks, filters, pagination).displayedTasks) = 1

\* C28: a step that changes the filters leaves the reset-page effect due, and
\* the only step taken while it is due is the effect, which leaves the page
\* index 1 whatever it was.
C28_Step ==
    /\ filters' # filters => resetPending'
    /\ resetPending => (~resetPending' /\ pagination'.currentPage = 1 /\ filters' = filters)

C28_FilterChangeResetsPage == [][C28_Step]_vars

\* the filters were changed on the second page; the effect is due
C28_Witness ==
    /\ resetPending
    /\ pagination.currentPage = 2

\* C29, as stated: a step that changes the page size leaves the page index as
\* it was.
C29_SizeChangeKeepsPage ==
    [][pagination'.itemsPerPage # pagination.itemsPerPage
       => pagination'.currentPage = pagination.currentPage]_vars

\* C29, amended: a step that changes the page size sets the size to the
\* chosen option and the page index to 1.
C29_Step ==
    pagination'.itemsPerPage # pagination.itemsPerPage
    => /\ pagination'.currentPage = 1
       /\ \E o \in itemsPerPageOptions : pagination'.itemsPerPage = parseInt(o)

C29_SizeChangeResetsPage == [][C29_Step]_vars

\* the size has been changed to 5 and the second page is shown: the next
\* change of size starts from a page index other than 1
C29_Witness ==
    /\ pagination.itemsPerPage = 5
    /\ pagination.currentPage = 2
    /\ route = "list"

\* C26: for every set of requested ids and every way the counts succeed or
\* fail, getTaskCommentCount returns the count or 0 and getTaskCommentCounts
\* returns a mapping with an entry for every requested id, 0 for the ids whose
\* count failed; what the list holds is the empty mapping or such a mapping,
\* and no error is set.
C26_CountsNeverFail ==
    /\ \A ids \in SUBSET DocIds : \A outcomes \in [DocIds -> {"ok", "throws"}] :
          LET counts == getTaskCommentCounts(commentDocs, ids, outcomes)
          IN /\ DOMAIN counts = ids
             /\ \A id \in ids :
                   /\ counts[id] = getTaskCommentCount(commentDocs, id, outcomes[id])
                   /\ outcomes[id] = "ok" => counts[id] = Len(commentDocs[id])
                   /\ outcomes[id] = "throws" => counts[id] = 0
    /\ \/ commentCounts = <<>>
       \/ /\ DOMAIN commentCounts = {tasks[i].id : i \in 1..Len(tasks)}
          /\ \A id \in DOMAIN commentCounts : commentCounts[id] \in 0..MaxComments
    /\ error \in {NoError, ErrFetch}

\* the list holds counts of which one is 0 for a task that has a comment:
\* that task's count failed
C26_Witness ==
    /\ commentCounts # <<>>
    /\ \E id \in DOMAIN commentCounts :
          commentCounts[id] = 0 /\ Len(commentDocs[id]) > 0
    /\ \E id \in DOMAIN commentCounts : commentCounts[id] > 0

\* C30: at any time the listeners held are none when no view-task page is
\* mounted and exactly one, for the viewed task id, when one is; and a step
\* that changes the comments the page shows sets them to the snapshot of the
\* task viewed after the step, or empties them as the page mounts or unmounts.
C30_Held ==
    /\ viewedId = NoTask => subs = <<>>
    /\ viewedId # NoTask => subs = <<viewedId>>

C30_Step ==
    comments' # comments
    => \/ /\ viewedId' # NoTask
          /\ viewedId' = viewedId
          /\ comments' = toComments(viewedId', commentDocs[viewedId'])
       \/ /\ viewedId' # viewedId
          /\ comments' = <<>>

C30_SubscriptionReleased == []C30_Held /\ [][C30_Step]_vars

\* the page shows a second task after the task id changed, and the first
\* task, whose listener was released, has comments
C30_Witness ==
    /\ viewedId = 2
    /\ Len(commentDocs[1]) > 0
    /\ comments # <<>>
    /\ \A n \in 1..Len(comments) : comments[n].id[1] = 1

\* C24 (P4): when getUserTasks has returned, its tasks are exactly the stored
\* tasks of the user, each once, on either path; the ordered query and the
\* fallback give the same set on the store as it is; and the tasks the
\* fallback returned are non-increasing by createdAt.
C24_FallbackEquivalent ==
    /\ \A userId \in QueryUsers :
          Range(orderedQuery(docs, userId)) = Range(fallbackQuery(docs, userId))
    /\ query.pc = "returned"
       => LET ids == {id \in DOMAIN docs : docs[id].userId = query.userId}
          IN /\ Range(query.result) = {convertTimestamps(id, docs[id]) : id \in ids}
             /\ Len(query.result) = Cardinality(ids)
             /\ query.path = "fallback"
                => \A i, j \in 1..Len(query.result) :
                      i < j => DateOf(query.result[i].createdAt)
                                  >= DateOf(query.result[j].createdAt)

\* the fallback returned two tasks in the opposite of document order: the
\* sort moved the newer one to the front
C24_Witness ==
    /\ query.pc = "returned"
    /\ query.path = "fallback"
    /\ Len(query.result) >= 2
    /\ query.result[1].id > query.result[2].id
    /\ query.result[1].createdAt # query.result[2].createdAt

\* C25: getUserTasks issues its second query only when the ordered query
\* failed for want of the index; after any other failure of the ordered query
\* no second query is issued.
C25_FallbackOnlyOnMissingIndex ==
    query.pc = "fallback" => (query.issued = 2 /\ query.indexError = IndexMissing)

\* C21: after a fetchTasks was rejected, a step dispatches another fetchTasks
\* only when it changes the session or the page shown.
C21_Step ==
    (fetch.pc = "rejected" /\ fetch'.pc = "pending")
    => (auth' # auth \/ route' # route)

C21_RejectedFetchNotRetried == [][C21_Step]_vars

\* C22: at no time are two edits of one task pending: the edit the list's
\* toggle dispatched and the edit the view-task page dispatched (its status
\* selector or its auto-save), for the same task id.
C22_OneEditInFlight ==
    \A taskId \in TaskIds :
        ~(/\ toggles[taskId].pc = "awaiting"
          /\ edit.pc = "pending"
          /\ edit.taskId = taskId)

\* C23: a step that dispatches the auto-save (an edit carrying the text
\* fields) is taken only when a debounce window has passed since the user's
\* last change of a text field, for a change not yet sent, and carries the
\* text as the page holds it; and while a change of the user is not yet sent,
\* a step that dispatches or settles an edit leaves the text fields of the page
\* as the user left them, so that the run's final values are the ones sent.
C23_Step ==
    /\ (edit' # edit /\ edit'.pc = "pending" /\ "title" \in DOMAIN edit'.taskData)
       => /\ now >= lastChangeAt + SaveDebounce
          /\ edit'.taskData = textUpdates(editableTask)
          /\ userChanged
    /\ (userChanged /\ userChanged' /\ edit' # edit)
       => textUpdates(editableTask') = textUpdates(editableTask)

C23_DebouncedSingleEdit == [][C23_Step]_vars

\* C31 (scenario A): when the create of a pending task of type task is
\* fulfilled, the new task is the first of the container's tasks, carries a
\* createdAt and carries no completedAt.
C31_Step ==
    (call.pc = "returned" /\ call'.pc = "fulfilled"
        /\ call.taskData.type = "task" /\ call.taskData.status = "pending")
    => /\ tasks'[1].id = call.result
       /\ tasks'[1].userId = call.userId
       /\ "createdAt" \in DOMAIN tasks'[1]
       /\ ~HasCompletedAt(tasks'[1])

C31_CreatedTaskFirstWithCreatedAt == [][C31_Step]_vars

\* the requests answered 200 after calling the provider
Succeeded ==
    {r \in ReqSlots : reqs[r].pc = "done" /\ reqs[r].status = 200 /\ reqs[r].calledProvider}

\* C32: the successes of a user never exceed 20. The stored count a request
\* reads never exceeds the successes before the read, so the successes are at
\* least the least count read by the requests answered 200 plus the number of
\* those requests: that sum never exceeds 20.
C32_QuotaHard ==
    Succeeded # {}
    => LET least == CHOOSE c \in {reqs[r].suggestionCount : r \in Succeeded} :
                       \A r \in Succeeded : c <= reqs[r].suggestionCount
       IN least + Cardinality(Succeeded) <= MAX_FREE_SUGGESTIONS

\* C33: in every reachable state, with no user signed in the container holds
\* no task, and with a user signed in every task of the container carries
\* that user's uid.
C33_TasksOfCurrentSession ==
    IF auth.user = NoUser
    THEN tasks = <<>>
    ELSE \A i \in 1..Len(tasks) : tasks[i].userId = auth.user

\* a createTask whose fulfilled or rejected action has not been reduced yet
CreatePending == call.pc \notin {"idle", "fulfilled", "rejected"}

\* C34: in every reachable state, loading is true exactly when a fetchTasks or
\* a createTask is pending.
C34_LoadingTracksPending ==
    loading <=> (fetch.pc = "pending" \/ CreatePending)

\* C35: the ids of the tasks in the container are pairwise distinct in every
\* reachable state.
C35_TaskIdsUnique ==
    \A i, j \in 1..Len(tasks) : tasks[i].id = tasks[j].id => i = j

\* ------------------------------------- TaskList on a collection that changes
\* the list mounted on the user's loaded tasks, all pending bugs, newest first
InitListLive ==
    /\ \E n \in (MaxListLen - 1)..MaxListLen : docs = [i \in 1..n |-> EarlierDoc]
    /\ tasks = getUserTasks(docs, "U1")
    /\ loading = FALSE
    /\ error = NoError
    /\ lastUpdated = 1
    /\ now = 1
    /\ ToggleAtRest
    /\ route = "list"
    /\ AddTaskAtRest
    /\ SuggestAtRest
    /\ userStats = NoStats
    /\ auth = SignedIn("U1")
    /\ fetch = [pc |-> "fulfilled", userId |-> "U1"]
    /\ edit = IdleEdit
    /\ dispatched = 0
    /\ ViewAtRest
    /\ ListAtRest
    /\ QueryAtRest
    /\ CommentsAtRest

\* the ids of the tasks on the page shown
DisplayedIds ==
    LET shown == derivedView(tasks, filters, pagination).displayedTasks
    IN {shown[i].id : i \in 1..Len(shown)}

\* the oldest task of the collection, the one a last page holds alone
OldestTaskId == tasks[Len(tasks)].id

\* the filter, page and size handlers, the status button of the oldest task
\* when the page shown holds it, and fetchTasks dispatched again and settled
NextListLive ==
    \/ \E value \in statusOptions : FilterChange("status", value)
    \/ \E value \in typeOptions : FilterChange("type", value)
    \/ ResetPageEffect
    \/ \E page \in 1..MaxListLen : PageChange(page)
    \/ \E itemsPerPage \in itemsPerPageOptions : ItemsPerPageChange(itemsPerPage)
    \/ OldestTaskId \in DisplayedIds /\ ~resetPending /\ ToggleClick(OldestTaskId)
    \/ EditFulfilled(OldestTaskId)
    \/ EditRejected(OldestTaskId)
    \/ ToggleResume(OldestTaskId)
    \/ ~resetPending /\ FetchDispatch
    \/ FetchFulfilled
    \/ FetchRejected

SpecListLive == InitListLive /\ [][NextListLive]_vars

\* C36: whenever the list has rendered and its reset-page effect has run, a
\* non-empty filtered collection has the current page within 1..totalPages.
C36_PageInRange ==
    (route = "list" /\ ~resetPending
        /\ derivedView(tasks, filters, pagination).filteredTasksCount > 0)
    => pagination.currentPage \in 1..derivedView(tasks, filters, pagination).totalPages

\* ------------------------------------- the view-task page left to itself
\* saveTaskChanges resumes after its await in a microtask of the settled
\* edit: no event handler, timeout or clock tick comes in between
NoResumeDue == edit.pc \notin {"fulfilled", "rejected"}

NextViewLive ==
    \/ \E v \in ViewTitles : NoResumeDue /\ TypeTitle(v)
    \/ \E newStatus \in Statuses : NoResumeDue /\ StatusChange(newStatus)
    \/ NoResumeDue /\ TimerFires
    \/ NoResumeDue /\ TickView
    \/ \E ok \in BOOLEAN : ViewEditSettled(ok)
    \/ SaveResume

\* what happens without the user: a dispatched edit settles, saveTaskChanges
\* resumes, a due timeout fires and time passes
ViewPageProgress ==
    /\ WF_vars(\E ok \in BOOLEAN : ViewEditSettled(ok))
    /\ WF_vars(SaveResume)
    /\ WF_vars(NoResumeDue /\ TimerFires)
    /\ WF_vars(NoResumeDue /\ TickView)

SpecViewLive == InitView /\ [][NextViewLive]_vars /\ ViewPageProgress

\* the page shows status s while the container's task has another
StatusShown(s) == editableTask.status = s /\ ViewTask.status # s

\* the edit last dispatched by the page, in flight or settled, carries status s
EditCarries(s) ==
    /\ edit.pc # "idle"
    /\ "status" \in DOMAIN edit.taskData
    /\ edit.taskData.status = s

\* C37: whenever the view-task page shows a status the container's task does
\* not have (the user has selected it), an edit carrying that status is in
\* flight or is dispatched later.
C37_StatusSelectionSaved ==
    \A s \in Statuses : StatusShown(s) ~> EditCarries(s)

\* C38: when an auto-save edit is fulfilled while the page holds text typed
\* since it was dispatched, the page's text fields keep the typed values.
C38_Step ==
    (edit.pc = "pending" /\ edit'.pc = "fulfilled"
        /\ "title" \in DOMAIN edit.taskData
        /\ textUpdates(editableTask) # edit.taskData)
    => textUpdates(editableTask') = textUpdates(editableTask)

C38_TypedDuringSaveKept == [][C38_Step]_vars

\* C39: on the view-task page opened by its URL, no step dispatches a
\* fetchTasks once a fetchTasks has been fulfilled.
C39_Step == ~(fetch.pc = "fulfilled" /\ fetch'.pc = "pending")

C39_NoFetchAfterFulfilled == [][C39_Step]_vars

\* ------------------------------------------------ the session's reducers
\* error.message of a failed sign-in or sign-out
AuthErrors == { <<"Firebase", "auth", "not", "initialized">>, <<"popup", "closed">> }

\* the payloads of setUser: a signed-in user or null
AuthPayloads == SessionUsers \cup {"U2", NoUser}

\* dispatch of one of authSlice's actions
SessionDispatch(next) ==
    /\ auth' = next
    /\ UNCHANGED <<containerVars, docs, now, toggleVars, addVars, suggVars, thunkVars,
                   viewVars, listVars, queryVars, commentVars>>

\* authSlice's five actions dispatched in any order, beside the session
\* notifications and the fetchTasks the pages dispatch for the signed-in user
NextSession ==
    \/ \E payload \in BOOLEAN : SessionDispatch(setLoading(auth, payload))
    \/ \E payload \in AuthPayloads : SessionDispatch(setUser(auth, payload))
    \/ SessionDispatch(clearUser(auth))
    \/ \E payload \in AuthErrors : SessionDispatch(setError(auth, payload))
    \/ SessionDispatch(clearError(auth))
    \/ \E u \in AuthPayloads : AuthStateChanged(u)
    \/ FetchDispatch
    \/ FetchFulfilled
    \/ FetchRejected

SpecSession == InitContainer /\ [][NextSession]_vars

\* C40: in every reachable state isAuthenticated is true exactly when a user
\* is present, and setUser (with any payload) and clearUser applied to the
\* state give a state with loading false, no error, and isAuthenticated true
\* exactly when a user is present.
C40_SessionInvariant ==
    /\ auth.isAuthenticated <=> auth.user # NoUser
    /\ \A r \in {setUser(auth, payload) : payload \in AuthPayloads} \cup {clearUser(auth)} :
          /\ r.loading = FALSE
          /\ r.error = NoError
          /\ r.isAuthenticated <=> r.user # NoUser

\* a user is signed in, an error is set and loading is true
C40_Witness ==
    /\ auth.user # NoUser
    /\ auth.isAuthenticated
    /\ auth.error # NoError
    /\ auth.loading

====
